---------------------------- MODULE Spec2Model ----------------------------
(***************************************************************************)
(* Model of the polling test scripts of the repository:                    *)
(*   - GenerationProgressMonitor and the pollers that read it              *)
(*     (tests/e2e/content_generation_flow_test.py),                        *)
(*   - TestResults, run_all_tests, the fallback selector chains and the    *)
(*     modal-closing helpers (tests/e2e/02_comprehensive_tests.py,         *)
(*     tests/e2e/01_reconnaissance.py),                                    *)
(*   - the timeout loops of scripts/test/test_draft_operations.py and      *)
(*     e2e/capture_style_publish.py.                                       *)
(*                                                                         *)
(* Text is a sequence of one-character strings, so that the regular        *)
(* expression searches of on_console are computed on the characters.       *)
(* time.time() is the integer variable now (seconds).  Code between two    *)
(* sleeps runs at one instant; a sleep of d seconds ends when now reaches  *)
(* wake = (instant the sleep began) + d.  Browser callbacks (on_console,   *)
(* on_error) run only while the poller is suspended in a sleep.            *)
(***************************************************************************)
EXTENDS Integers, Sequences, FiniteSets, TLC

VARIABLES
    \* GenerationProgressMonitor fields
    console_logs, errors, pass_starts, pass_completes, last_pass_seen, last_ui_pass,
    \* clock and the poller's position
    now, pc, wake,
    \* the poller's locals
    start_time, from_pass, to_pass, timeout_seconds,
    last_activity_time, last_log_count, wait_start,
    \* return values of the test functions and what they printed
    ret, printed,
    \* history of the console stream (not program state): instant of the last
    \* console line delivered (-1: none yet)
    last_line_at,
    \* TestResults fields
    tests, passed, failed, skipped,
    \* timeout loops of the scripts: which script runs, what it logged, and
    \* (history, not program state) which polling loops ran into their timeout
    script, step_log, timed_out,
    \* the console stream of the ten-pass scenario: seconds between two lines
    line_gap,
    \* run_all_tests: its position, the number of its next call, the functions it has invoked in order, how
    \* often generate_final_report ran, whether browser.close() was called,
    \* whether the except clause was entered, and whether an exception left
    \* the function
    run_pc, run_step, called, reports, browser_closed, caught, escaped,
    \* the report generate_final_report writes: summary and per-category counts
    report,
    \* a helper function on its own (a fallback selector chain, a modal-closing
    \* helper): which one runs, its position, the selector it is at, the
    \* selectors tried so far, the outcomes produced so far, how many
    \* exceptions its except clauses swallowed, whether one reached its caller
    helper, helper_pc, sel, tried, produced, suppressed, propagated,
    \* test_ui_sync_with_state: its counters, the two values of its last poll,
    \* and (history, not program state) the pairs of values its polls have read
    mismatches, checks, ui_pass, console_pass, polls

monitorVars == <<console_logs, errors, pass_starts, pass_completes, last_pass_seen, last_ui_pass>>
pollerVars  == <<pc, wake, start_time, from_pass, to_pass, timeout_seconds,
                 last_activity_time, last_log_count, wait_start, ret, printed>>
resultVars  == <<tests, passed, failed, skipped>>
scriptVars  == <<script, step_log, timed_out, line_gap>>
runVars     == <<run_pc, run_step, called, reports, browser_closed, caught, escaped,
                 report>>
helperVars  == <<helper, helper_pc, sel, tried, produced, suppressed, propagated>>
uiVars      == <<mismatches, checks, ui_pass, console_pass, polls>>
vars == <<monitorVars, now, pollerVars, last_line_at, resultVars, scriptVars, runVars,
          helperVars, uiVars>>

-----------------------------------------------------------------------------
(* Bounds of the model *)

\* console lines delivered in one behaviour
MaxLogs == 3
\* page errors delivered in one behaviour
MaxErrors == 1
\* last instant of the free-running monitor specification
MaxClock == 1

-----------------------------------------------------------------------------
(* Text *)

Digits == <<"0", "1", "2", "3", "4", "5", "6", "7", "8", "9">>

IsDigit(c) == \E d \in 1..10 : Digits[d] = c

DigitVal(c) == (CHOOSE d \in 1..10 : Digits[d] = c) - 1

\* str(n) for n >= 0
RECURSIVE Dec(_)
Dec(n) == IF n < 10 THEN <<Digits[n + 1]>> ELSE Dec(n \div 10) \o <<Digits[(n % 10) + 1]>>

\* int(s[i..j-1]) for a run of digits
RECURSIVE ParseInt(_, _, _)
ParseInt(s, i, j) ==
    IF j <= i THEN 0 ELSE ParseInt(s, i, j - 1) * 10 + DigitVal(s[j - 1])

\* the literal lit occurs in s at position i
IsLiteralAt(s, i, lit) ==
    /\ i >= 1
    /\ i + Len(lit) - 1 <= Len(s)
    /\ \A k \in 1..Len(lit) : s[i + k - 1] = lit[k]

\* \d+ is greedy: the position after the longest run of digits that starts at i
RECURSIVE DigitRunEnd(_, _)
DigitRunEnd(s, i) ==
    IF i <= Len(s) /\ IsDigit(s[i]) THEN DigitRunEnd(s, i + 1) ELSE i

\* Python's "lit in s"
Contains(s, lit) == \E i \in 1..Len(s) : IsLiteralAt(s, i, lit)

LitAfterPass == <<"[", "r", "u", "n", "P", "a", "s", "s", "e", "s", "]", " ", "A", "f", "t", "e", "r", " ", "P", "a", "s", "s", " ">>
LitCurrentPass == <<":", " ", "c", "u", "r", "r", "e", "n", "t", "_", "p", "a", "s", "s", "=">>
LitPass == <<"P", "a", "s", "s", " ">>
LitColon == <<":">>
LitError == <<"E", "r", "r", "o", "r">>
LitCritical == <<"C", "R", "I", "T", "I", "C", "A", "L">>

NoMatch == [found |-> FALSE]

\* r'\[runPasses\] After Pass (\d+): current_pass=(\d+)' anchored at i
CompleteMatchAt(s, i) ==
    LET d1 == i + Len(LitAfterPass)
        e1 == DigitRunEnd(s, d1)
        d2 == e1 + Len(LitCurrentPass)
        e2 == DigitRunEnd(s, d2)
    IN  /\ IsLiteralAt(s, i, LitAfterPass)
        /\ e1 > d1
        /\ IsLiteralAt(s, e1, LitCurrentPass)
        /\ e2 > d2

\* re.search: the leftmost match, groups converted with int()
CompleteSearch(s) ==
    IF \E i \in 1..Len(s) : CompleteMatchAt(s, i)
    THEN LET i  == CHOOSE k \in 1..Len(s) :
                      CompleteMatchAt(s, k) /\ \A m \in 1..(k - 1) : ~CompleteMatchAt(s, m)
             d1 == i + Len(LitAfterPass)
             e1 == DigitRunEnd(s, d1)
             d2 == e1 + Len(LitCurrentPass)
         IN  [found |-> TRUE,
              completed_pass |-> ParseInt(s, d1, e1),
              next_pass |-> ParseInt(s, d2, DigitRunEnd(s, d2))]
    ELSE NoMatch

\* a faulty variant of StartMatchAt: the colon after the digits is not required
StartMatchAtNoColon(s, i) ==
    LET d1 == i + Len(LitPass)
        e1 == DigitRunEnd(s, d1)
    IN  /\ IsLiteralAt(s, i, LitPass)
        /\ e1 > d1

\* a faulty variant of StartMatchAt: re.match instead of re.search, the
\* pattern is looked for at the beginning of the line only
StartMatchAtLineStart(s, i) ==
    LET d1 == i + Len(LitPass)
        e1 == DigitRunEnd(s, d1)
    IN  /\ i = 1
        /\ IsLiteralAt(s, i, LitPass)
        /\ e1 > d1
        /\ IsLiteralAt(s, e1, LitColon)

\* r'Pass (\d+):' anchored at i
StartMatchAt(s, i) ==
    LET d1 == i + Len(LitPass)
        e1 == DigitRunEnd(s, d1)
    IN  /\ IsLiteralAt(s, i, LitPass)
        /\ e1 > d1
        /\ IsLiteralAt(s, e1, LitColon)

StartSearch(s) ==
    IF \E i \in 1..Len(s) : StartMatchAt(s, i)
    THEN LET i  == CHOOSE k \in 1..Len(s) :
                      StartMatchAt(s, k) /\ \A m \in 1..(k - 1) : ~StartMatchAt(s, m)
             d1 == i + Len(LitPass)
         IN  [found |-> TRUE, pass_num |-> ParseInt(s, d1, DigitRunEnd(s, d1))]
    ELSE NoMatch

-----------------------------------------------------------------------------
(* Console lines and page errors the application under test is given to emit *)

\* "Pass N: x", the line logged when pass n starts
StartLine(n) == LitPass \o Dec(n) \o <<":", " ", "x">>

\* "[runPasses] After Pass N: current_pass=N+1"
CompleteLine(n) == LitAfterPass \o Dec(n) \o LitCurrentPass \o Dec(n + 1)

LineAfterPass8 == <<"[", "r", "u", "n", "P", "a", "s", "s", "e", "s", "]", " ", "A", "f", "t", "e", "r", " ", "P", "a", "s", "s", " ", "8", ":", " ", "c", "u", "r", "r", "e", "n", "t", "_", "p", "a", "s", "s", "=", "9">>
LinePass9 == <<"P", "a", "s", "s", " ", "9", ":", " ", "O", "p", "t", "i", "m", "i", "z", "i", "n", "g", " ", "f", "l", "o", "w">>
LineCompletedTag == <<"[", "P", "a", "s", "s", "8", "]", " ", "C", "O", "M", "P", "L", "E", "T", "E", "D", " ", "p", "a", "s", "s", " ", "8">>
LineNoColon == <<"P", "a", "s", "s", " ", "9", " ", "o", "f", " ", "1", "0">>
LineNoDigits == <<"P", "a", "s", "s", " ", ":", " ", "x">>

\* lines that match neither the completion nor the start pattern
UnmatchedLines == {LineCompletedTag, LineNoColon, LineNoDigits}

\* the console alphabet of the free-running monitor
MonitorLines ==
    {LineAfterPass8, LinePass9, StartLine(8), StartLine(0)} \cup UnmatchedLines

ErrTimeout == <<"E", "r", "r", "o", "r", ":", " ", "x">>
ErrCrit == <<"C", "R", "I", "T", "I", "C", "A", "L", " ", "x">>
ErrWarn == <<"w", "a", "r", "n">>
ErrorTexts == {ErrTimeout, ErrWarn}

-----------------------------------------------------------------------------
(* GenerationProgressMonitor *)

EmptyDict == [k \in {} |-> 0]

\* d[k] = v
DictSet(d, k, v) == [x \in (DOMAIN d) \cup {k} |-> IF x = k THEN v ELSE d[x]]

\* a fresh monitor
MonitorInit ==
    /\ console_logs = <<>>
    /\ errors = <<>>
    /\ pass_starts = EmptyDict
    /\ pass_completes = EmptyDict
    /\ last_pass_seen = 0
    /\ last_ui_pass = 0

\* a faulty variant of StartAccepted: the watermark test dropped
StartAcceptedAlways(pass_num, last) == TRUE

\* a faulty variant of StartAccepted: >= instead of >
StartAcceptedGeq(pass_num, last) == pass_num >= last

\* if pass_num > self.last_pass_seen
StartAccepted(pass_num, last) == pass_num > last

\* a faulty variant of CompletesAfter: the completion is not recorded
CompletesAfterDropped(text, completes, t) == completes

\* pass_completes after the first pattern of on_console
CompletesAfter(text, completes, t) ==
    LET m == CompleteSearch(text)
    IN  IF m.found THEN DictSet(completes, m.completed_pass, t) ELSE completes

\* the third pattern of on_console finds a pass number above the watermark
StartsNewPass(text, last) ==
    LET m == StartSearch(text)
    IN  m.found /\ StartAccepted(m.pass_num, last)

\* GenerationProgressMonitor.on_console(msg) with msg.text = text
OnConsole(text) ==
    /\ console_logs' = Append(console_logs, text)
    /\ pass_completes' = CompletesAfter(text, pass_completes, now)
    /\ IF StartsNewPass(text, last_pass_seen)
       THEN /\ last_pass_seen' = StartSearch(text).pass_num
            /\ pass_starts' = DictSet(pass_starts, StartSearch(text).pass_num, now)
       ELSE UNCHANGED <<last_pass_seen, pass_starts>>
    /\ last_line_at' = now
    /\ UNCHANGED <<errors, last_ui_pass>>

\* a faulty variant of OnError: the error text is put into console_logs too
OnErrorAlsoLogs(text) ==
    /\ errors' = Append(errors, text)
    /\ console_logs' = Append(console_logs, text)
    /\ UNCHANGED <<pass_starts, pass_completes, last_pass_seen, last_ui_pass, last_line_at>>

\* GenerationProgressMonitor.on_error(error) with str(error) = text
OnError(text) ==
    /\ errors' = Append(errors, text)
    /\ UNCHANGED <<console_logs, pass_starts, pass_completes, last_pass_seen,
                   last_ui_pass, last_line_at>>

\* GenerationProgressMonitor.get_summary()
get_summary ==
    [passes_started |-> DOMAIN pass_starts,
     passes_completed |-> DOMAIN pass_completes,
     last_pass_seen |-> last_pass_seen,
     error_count |-> Len(errors),
     total_logs |-> Len(console_logs)]

-----------------------------------------------------------------------------
(* Initial values of everything outside the monitor *)

\* the poller at label, nothing assigned or returned yet
PollerAt(label) ==
    /\ pc = label
    /\ wake = 0
    /\ start_time = 0
    /\ last_activity_time = 0
    /\ last_log_count = 0
    /\ wait_start = 0
    /\ ret = [f \in {} |-> FALSE]
    /\ printed = {}

\* no call of wait_for_pass_transition yet
NoWaitArgs ==
    /\ from_pass = 0
    /\ to_pass = 0
    /\ timeout_seconds = 0

PollerIdle == PollerAt("idle") /\ NoWaitArgs

ResultsInit ==
    /\ tests = <<>>
    /\ passed = 0
    /\ failed = 0
    /\ skipped = 0

\* no report has been written
NoReport ==
    [summary |-> [total |-> 0, passed |-> 0, failed |-> 0, skipped |-> 0],
     categories |-> EmptyDict]

RunIdle ==
    /\ report = NoReport
    /\ run_pc = "idle"
    /\ run_step = 1
    /\ called = <<>>
    /\ reports = 0
    /\ browser_closed = FALSE
    /\ caught = FALSE
    /\ escaped = FALSE

HelperAt(f, position) ==
    /\ helper = f
    /\ helper_pc = position
    /\ sel = 1
    /\ tried = <<>>
    /\ produced = <<>>
    /\ suppressed = 0
    /\ propagated = FALSE

HelperIdle == HelperAt("none", "idle")

\* the value None of get_ui_pass_number
None == -1

\* test_ui_sync_with_state has not been called
UiIdle ==
    /\ mismatches = 0
    /\ checks = 0
    /\ ui_pass = None
    /\ console_pass = 0
    /\ polls = {}

ScriptIdle ==
    /\ script = "none"
    /\ step_log = {}
    /\ timed_out = {}
    /\ line_gap = 0

-----------------------------------------------------------------------------
(* Spec: the monitor driven by the page's console and pageerror events *)

Init ==
    /\ MonitorInit
    /\ now = 0
    /\ last_line_at = -1
    /\ PollerIdle
    /\ ResultsInit
    /\ RunIdle
    /\ HelperIdle
    /\ UiIdle
    /\ ScriptIdle

on_console ==
    /\ Len(console_logs) < MaxLogs
    /\ \E text \in MonitorLines : OnConsole(text)
    /\ UNCHANGED <<now, pollerVars, resultVars, scriptVars, runVars, helperVars, uiVars>>

on_error ==
    /\ Len(errors) < MaxErrors
    /\ \E text \in ErrorTexts : OnError(text)
    /\ UNCHANGED <<now, pollerVars, resultVars, scriptVars, runVars, helperVars, uiVars>>

\* time passes between two events
Tick ==
    /\ now < MaxClock
    /\ now' = now + 1
    /\ UNCHANGED <<monitorVars, pollerVars, last_line_at, resultVars, scriptVars, runVars, helperVars, uiVars>>

Next == on_console \/ on_error \/ Tick

Spec == Init /\ [][Next]_vars

-----------------------------------------------------------------------------
(* Claims about the monitor, checked under Spec *)

\* the last console line delivered
LastLine == console_logs[Len(console_logs)]

\* this step is on_console(text)
ConsoleStep(text) == console_logs' = Append(console_logs, text)

\* C1: across any sequence of on_console and on_error calls, last_pass_seen
\* never decreases: after every call it is >= its value before the call.
C1_LastPassSeenNeverDecreases == [][last_pass_seen' >= last_pass_seen]_vars

\* a pass-8 line was delivered after pass 9 had been seen, and an error too
C1_Witness ==
    /\ Len(console_logs) >= 2
    /\ console_logs[1] = LinePass9
    /\ LastLine = StartLine(8)
    /\ Len(errors) >= 1
    /\ last_pass_seen = 9

\* C5: from a fresh monitor, after the line
\* "[runPasses] After Pass 8: current_pass=9" the key 8 is in pass_completes;
\* after "Pass 9: Optimizing flow" follows it, the key 9 is in pass_starts
\* and last_pass_seen is 9.
C5_LiteralScenario ==
    /\ console_logs = <<LineAfterPass8>> => 8 \in DOMAIN pass_completes
    /\ console_logs = <<LineAfterPass8, LinePass9>> =>
          /\ 8 \in DOMAIN pass_completes
          /\ 9 \in DOMAIN pass_starts
          /\ last_pass_seen = 9

C5_Witness ==
    /\ console_logs = <<LineAfterPass8, LinePass9>>
    /\ last_pass_seen = 9
    /\ pass_starts[9] > pass_completes[8]

\* C8: a "Pass N:" line with N <= last_pass_seen leaves last_pass_seen and
\* pass_starts unchanged, and a start timestamp, once recorded, is never
\* overwritten by a later line.
C8_WatermarkFrame ==
    [][ /\ \A text \in MonitorLines :
              (/\ ConsoleStep(text)
               /\ StartSearch(text).found
               /\ StartSearch(text).pass_num <= last_pass_seen)
                  => UNCHANGED <<last_pass_seen, pass_starts>>
        /\ \A n \in DOMAIN pass_starts :
              n \in DOMAIN pass_starts' /\ pass_starts'[n] = pass_starts[n] ]_vars

\* the pass-9 line was delivered a second time, later than the first
C8_Witness ==
    /\ Len(console_logs) >= 2
    /\ console_logs[1] = LinePass9
    /\ LastLine = LinePass9
    /\ last_line_at > pass_starts[9]

\* C9: a line that matches neither the completion pattern nor the start
\* pattern (a "[PassN] COMPLETED pass N" line, a malformed line) is only
\* appended to console_logs: pass_starts, pass_completes, last_pass_seen and
\* errors are unchanged.
C9_UnmatchedLineIgnored ==
    [][ \A text \in UnmatchedLines :
            ConsoleStep(text) =>
                /\ UNCHANGED <<pass_starts, pass_completes, last_pass_seen, errors>>
                /\ Len(console_logs') = Len(console_logs) + 1 ]_vars

\* unmatched lines were delivered to a monitor that has starts and completions
C9_Witness ==
    /\ Len(console_logs) = 3
    /\ console_logs[1] = LineAfterPass8
    /\ console_logs[2] = LineNoColon
    /\ LastLine = LineCompletedTag
    /\ DOMAIN pass_starts = {8}
    /\ DOMAIN pass_completes = {8}

-----------------------------------------------------------------------------
(* TestResults (02_comprehensive_tests.py) *)

\* records kept in one behaviour
MaxTests == 4

\* the status arguments of the add_result calls of the script
CallSiteStatuses == {"PASS", "FAIL", "SKIP"}

\* some of the category and name arguments of the add_result calls
CallSiteTests ==
    {[category |-> "Authentication", name |-> "Login"],
     [category |-> "Topics", name |-> "Topic list display"]}

\* if status == "PASS": self.passed += 1
PassedAfter(status, n) == IF status = "PASS" THEN n + 1 ELSE n

\* elif status == "FAIL": self.failed += 1
FailedAfter(status, n) == IF status = "FAIL" THEN n + 1 ELSE n

\* a faulty variant of SkippedAfter: only the status SKIP is counted, after a FAIL the
\* branches fall through
SkippedAfterFallThrough(status, n) == IF status # "PASS" THEN n + 1 ELSE n

\* else: self.skipped += 1
SkippedAfter(status, n) == IF status # "PASS" /\ status # "FAIL" THEN n + 1 ELSE n

\* TestResults.add_result(category, name, status, details, screenshot)
AddResult(category, name, status, details, screenshot) ==
    /\ tests' = Append(tests, [category |-> category, name |-> name, status |-> status,
                               details |-> details, screenshot |-> screenshot,
                               timestamp |-> now])
    /\ passed' = PassedAfter(status, passed)
    /\ failed' = FailedAfter(status, failed)
    /\ skipped' = SkippedAfter(status, skipped)

\* TestResults.summary(), without the formatted pass_rate
summary ==
    [total |-> Len(tests), passed |-> passed, failed |-> failed, skipped |-> skipped]

\* the test functions record their outcomes
add_result ==
    /\ Len(tests) < MaxTests
    /\ \E t \in CallSiteTests, status \in CallSiteStatuses :
          AddResult(t.category, t.name, status, "", "None")
    /\ UNCHANGED <<monitorVars, now, pollerVars, last_line_at, scriptVars, runVars, helperVars, uiVars>>

NextResults == add_result

SpecResults == Init /\ [][NextResults]_vars

\* number of records with the given status
StatusCount(status) == Cardinality({i \in 1..Len(tests) : tests[i].status = status})

\* C4: every record in tests has status PASS, FAIL or SKIP, and summary()
\* reports passed, failed, skipped as the numbers of PASS, FAIL and SKIP
\* records and total as the length of tests.
C4_SummaryIsTally ==
    /\ \A i \in 1..Len(tests) : tests[i].status \in {"PASS", "FAIL", "SKIP"}
    /\ summary.passed = StatusCount("PASS")
    /\ summary.failed = StatusCount("FAIL")
    /\ summary.skipped = StatusCount("SKIP")
    /\ summary.total = Len(tests)

\* outcomes of all three kinds were recorded, one of them twice
C4_Witness ==
    /\ Len(tests) = 4
    /\ StatusCount("PASS") = 1
    /\ StatusCount("FAIL") = 2
    /\ StatusCount("SKIP") = 1

-----------------------------------------------------------------------------
(* wait_for_pass_transition *)

\* largest timeout_seconds the function is called with in SpecWait
MaxWaitTimeout == 3
\* latest instant at which the caller makes the call in SpecWait
MaxPreCall == 1

\* console lines delivered while a transition 8 -> 9 is awaited
WaitLines == {LineAfterPass8, LinePass9}

\* return value of function f
Returns(f, v) == ret' = DictSet(ret, f, v)

Returned(f) == f \in DOMAIN ret

\* a faulty variant of WithinTimeout: <= instead of <
WithinTimeoutInclusive(t, start, timeout) == t - start <= timeout

\* while time.time() - start_time < timeout
WithinTimeout(t, start, timeout) == t - start < timeout

\* a faulty variant of Sleep: asyncio.sleep(0), the clock does not advance
SleepZero(d, label) ==
    /\ pc' = label
    /\ wake' = now

\* await asyncio.sleep(d), continuing at label
Sleep(d, label) ==
    /\ pc' = label
    /\ wake' = now + d

\* the poller is suspended in a sleep that ends at wake
Sleeping == pc \in {"wt_before", "wt_sleep2", "wt_sleep1",
                    "t89_sleep", "hang_sleep", "gen_sleep", "before",
                    "hang_before", "gen_before", "ui_sleep",
                    "rc_settle", "rc_started",
                    "audit_sleep", "flow_sleep", "polish_sleep",
                    "cap_sleep", "cap_settle"}

\* the caller's locals that wait_for_pass_transition leaves alone
waitFrame == <<start_time, from_pass, to_pass, timeout_seconds,
               last_activity_time, last_log_count, printed>>

\* start_time = time.time()
WaitCall ==
    /\ pc = "wt_call"
    /\ wait_start' = now
    /\ pc' = "wt_loop"
    /\ UNCHANGED <<wake, ret, waitFrame>>

\* one evaluation of the loop condition and of the loop body up to its first sleep
WaitLoop ==
    /\ pc = "wt_loop"
    /\ IF WithinTimeout(now, wait_start, timeout_seconds)
       THEN IF to_pass \in DOMAIN pass_starts
            THEN /\ Returns("wait_for_pass_transition", TRUE)
                 /\ pc' = "wt_done"
                 /\ UNCHANGED wake
            ELSE IF from_pass \in DOMAIN pass_completes
                 THEN Sleep(2, "wt_sleep2") /\ UNCHANGED ret
                 ELSE Sleep(1, "wt_sleep1") /\ UNCHANGED ret
       ELSE /\ Returns("wait_for_pass_transition", FALSE)
            /\ pc' = "wt_done"
            /\ UNCHANGED wake
    /\ UNCHANGED <<wait_start, waitFrame>>

\* after "await asyncio.sleep(2)": the second look at pass_starts
WaitAfterSleep2 ==
    /\ pc = "wt_sleep2"
    /\ now = wake
    /\ IF to_pass \in DOMAIN pass_starts
       THEN /\ Returns("wait_for_pass_transition", TRUE)
            /\ pc' = "wt_done"
            /\ UNCHANGED wake
       ELSE Sleep(1, "wt_sleep1") /\ UNCHANGED ret
    /\ UNCHANGED <<wait_start, waitFrame>>

\* after "await asyncio.sleep(1)": back to the loop condition
WaitAfterSleep1 ==
    /\ pc = "wt_sleep1"
    /\ now = wake
    /\ pc' = "wt_loop"
    /\ UNCHANGED <<wake, wait_start, ret, waitFrame>>

wait_for_pass_transition ==
    /\ (WaitCall \/ WaitLoop \/ WaitAfterSleep2 \/ WaitAfterSleep1)
    /\ UNCHANGED <<monitorVars, now, last_line_at, resultVars, scriptVars, runVars, helperVars, uiVars>>

\* the clock advances while the poller sleeps
SleepTick ==
    /\ Sleeping
    /\ now < wake
    /\ now' = now + 1
    /\ UNCHANGED <<monitorVars, pollerVars, last_line_at, resultVars, scriptVars, runVars, helperVars, uiVars>>

\* a console event is dispatched while the poller sleeps
ConsoleDuringSleep(lines, max) ==
    /\ Sleeping
    /\ Len(console_logs) < max
    /\ \E text \in lines : OnConsole(text)
    /\ UNCHANGED <<now, pollerVars, resultVars, scriptVars, runVars, helperVars, uiVars>>

\* a pageerror event is dispatched while the poller sleeps
ErrorDuringSleep(texts, max) ==
    /\ Sleeping
    /\ Len(errors) < max
    /\ \E text \in texts : OnError(text)
    /\ UNCHANGED <<now, pollerVars, resultVars, scriptVars, runVars, helperVars, uiVars>>

InitWait ==
    /\ MonitorInit
    /\ now = 0
    /\ last_line_at = -1
    /\ pc = "wt_before"
    /\ wake = MaxPreCall
    /\ from_pass = 8
    /\ to_pass = 9
    /\ timeout_seconds \in 1..MaxWaitTimeout
    /\ start_time = 0
    /\ last_activity_time = 0
    /\ last_log_count = 0
    /\ wait_start = 0
    /\ ret = [f \in {} |-> FALSE]
    /\ printed = {}
    /\ ResultsInit
    /\ RunIdle
    /\ HelperIdle
    /\ UiIdle
    /\ ScriptIdle

wait_console == ConsoleDuringSleep(WaitLines, MaxLogs)

\* the caller, suspended until now, makes the call
wait_caller ==
    /\ pc = "wt_before"
    /\ pc' = "wt_call"
    /\ UNCHANGED <<wake, wait_start, ret, waitFrame>>
    /\ UNCHANGED <<monitorVars, now, last_line_at, resultVars, scriptVars, runVars, helperVars, uiVars>>

NextWait == wait_caller \/ wait_for_pass_transition \/ SleepTick \/ wait_console

SpecWait == InitWait /\ [][NextWait]_vars

WaitDone == pc = "wt_done" /\ Returned("wait_for_pass_transition")

\* C3 as stated: wait_for_pass_transition returns True if and only if a start
\* of to_pass is recorded within timeout_seconds after the completion
\* timestamp of from_pass.
C3_AsStated ==
    WaitDone =>
        (ret["wait_for_pass_transition"] <=>
            /\ from_pass \in DOMAIN pass_completes
            /\ to_pass \in DOMAIN pass_starts
            /\ pass_starts[to_pass] >= pass_completes[from_pass]
            /\ pass_starts[to_pass] - pass_completes[from_pass] <= timeout_seconds)

\* C3 amended: the function returns True only when it finds to_pass in
\* pass_starts at one of its looks, all made less than timeout_seconds + 2
\* after the call began, whatever from_pass did; it returns False only once
\* timeout_seconds have elapsed, and then a start of to_pass, if any, was
\* recorded during the final one-second sleep.
C3_ReturnsOnTargetStart ==
    WaitDone =>
        IF ret["wait_for_pass_transition"]
        THEN /\ to_pass \in DOMAIN pass_starts
             /\ pass_starts[to_pass] <= now
             /\ now - wait_start < timeout_seconds + 2
        ELSE /\ now - wait_start >= timeout_seconds
             /\ to_pass \in DOMAIN pass_starts => pass_starts[to_pass] >= now - 1

\* True was returned although from_pass never completed
C3_Witness ==
    /\ WaitDone
    /\ ret["wait_for_pass_transition"]
    /\ from_pass \notin DOMAIN pass_completes
    /\ now > wait_start

-----------------------------------------------------------------------------
(* test_no_hang_between_passes *)

\* console lines delivered during one run of test_no_hang_between_passes
MaxHangLogs == 2

\* hang_threshold_seconds = 120
hang_threshold_seconds == 120
\* while time.time() - start_time < 300
HangWindow == 300
\* await asyncio.sleep(5)
HangPoll == 5

\* console lines delivered while the hang test runs
HangLines == {LineNoColon}

\* a faulty variant of StallDetected: >= instead of >
StallDetectedInclusive(since, threshold) == since >= threshold

\* if time_since_activity > hang_threshold_seconds
StallDetected(since, threshold) == since > threshold

\* if current_log_count > last_log_count
\* a faulty variant of ActivitySeen: new lines are never noticed
ActivitySeenNever(count, last_count) == FALSE

ActivitySeen(count, last_count) == count > last_count

\* the locals the hang test leaves alone
hangFrame == <<from_pass, to_pass, timeout_seconds, wait_start>>

\* last_activity_time = time.time() ... start_time = time.time()
HangCall ==
    /\ pc = "hang_call"
    /\ last_activity_time' = now
    /\ last_log_count' = Len(console_logs)
    /\ start_time' = now
    /\ pc' = "hang_loop"
    /\ UNCHANGED <<wake, ret, printed, hangFrame>>

\* one evaluation of the loop condition and of the loop body up to its sleep
HangLoop ==
    /\ pc = "hang_loop"
    /\ IF WithinTimeout(now, start_time, HangWindow)
       THEN LET seen == ActivitySeen(Len(console_logs), last_log_count)
                activity == IF seen THEN now ELSE last_activity_time
            IN  /\ last_activity_time' = activity
                /\ last_log_count' = IF seen THEN Len(console_logs) ELSE last_log_count
                /\ IF StallDetected(now - activity, hang_threshold_seconds)
                   THEN /\ printed' = printed \cup {"FAIL: No activity - possible hang!"}
                        /\ Returns("test_no_hang_between_passes", FALSE)
                        /\ pc' = "hang_done"
                        /\ UNCHANGED wake
                   ELSE /\ Sleep(HangPoll, "hang_sleep")
                        /\ UNCHANGED <<ret, printed>>
       ELSE /\ printed' = printed \cup {"PASS: No hangs detected during monitoring period"}
            /\ Returns("test_no_hang_between_passes", TRUE)
            /\ pc' = "hang_done"
            /\ UNCHANGED <<wake, last_activity_time, last_log_count>>
    /\ UNCHANGED <<start_time, hangFrame>>

\* after "await asyncio.sleep(5)": back to the loop condition
HangAfterSleep ==
    /\ pc = "hang_sleep"
    /\ now = wake
    /\ pc' = "hang_loop"
    /\ UNCHANGED <<wake, start_time, last_activity_time, last_log_count, ret, printed,
                   hangFrame>>

test_no_hang_between_passes ==
    /\ (HangCall \/ HangLoop \/ HangAfterSleep)
    /\ UNCHANGED <<monitorVars, now, last_line_at, resultVars, scriptVars, runVars, helperVars, uiVars>>

InitHang ==
    /\ MonitorInit
    /\ now = 0
    /\ last_line_at = -1
    /\ PollerAt("hang_call")
    /\ NoWaitArgs
    /\ ResultsInit
    /\ RunIdle
    /\ HelperIdle
    /\ UiIdle
    /\ ScriptIdle

hang_console == ConsoleDuringSleep(HangLines, MaxHangLogs)

NextHang == test_no_hang_between_passes \/ SleepTick \/ hang_console

SpecHang == InitHang /\ [][NextHang]_vars

HangDone == pc = "hang_done" /\ Returned("test_no_hang_between_passes")

\* seconds since the last console line was delivered, or since the monitoring
\* began when none was delivered after that
SilenceNow == IF last_line_at >= start_time THEN now - last_line_at ELSE now - start_time

-----------------------------------------------------------------------------
(* test_pass_transition_8_to_9 *)

\* console lines delivered during one run of test_pass_transition_8_to_9
MaxT89Logs == 2
\* the console is active only within LineWindow seconds after a wait of the
\* test began and within LineWindow seconds before its deadline, or after it
LineWindow == 1

\* while 8 not in monitor.pass_starts and time.time() - start_time < 300
Pass8StartTimeout == 300
\* wait_for_pass_transition(page, monitor, 8, 9, timeout_seconds=300)
TransitionTimeout == 300

T89Lines == {LineAfterPass8, LinePass9, StartLine(10)}

MsgNeverStarted == "FAIL: Pass 8 never started within timeout"
MsgNoTransition == "FAIL: Pass 8 -> Pass 9 transition did not occur within timeout"
MsgErrorsFound == "Errors found"
MsgDiagnosis == "DIAGNOSIS: Pass 8 completed but Pass 9 never started!"
MsgPass9Started == "Pass 9 started successfully!"

\* a faulty variant of DiagnosisApplies: the "not" is missing
DiagnosisAppliesInverted(completes, starts) ==
    8 \in DOMAIN completes /\ 9 \in DOMAIN starts

\* if 8 in monitor.pass_completes and 9 not in monitor.pass_starts
DiagnosisApplies(completes, starts) ==
    8 \in DOMAIN completes /\ 9 \notin DOMAIN starts

\* start_time = time.time()
T89Call ==
    /\ pc = "t89_call"
    /\ start_time' = now
    /\ pc' = "t89_wait"
    /\ UNCHANGED <<wake, from_pass, to_pass, timeout_seconds, ret, printed>>

\* the loop that waits for pass 8 to start, and the statements after it up
\* to the call of wait_for_pass_transition
T89WaitPass8 ==
    /\ pc = "t89_wait"
    /\ IF 8 \notin DOMAIN pass_starts /\ WithinTimeout(now, start_time, Pass8StartTimeout)
       THEN /\ Sleep(1, "t89_sleep")
            /\ UNCHANGED <<from_pass, to_pass, timeout_seconds, ret, printed>>
       ELSE IF 8 \notin DOMAIN pass_starts
            THEN /\ printed' = printed \cup {MsgNeverStarted}
                 /\ Returns("test_pass_transition_8_to_9", FALSE)
                 /\ pc' = "t89_done"
                 /\ UNCHANGED <<wake, from_pass, to_pass, timeout_seconds>>
            ELSE /\ from_pass' = 8
                 /\ to_pass' = 9
                 /\ timeout_seconds' = TransitionTimeout
                 /\ pc' = "wt_call"
                 /\ UNCHANGED <<wake, ret, printed>>
    /\ UNCHANGED start_time

\* after "await asyncio.sleep(1)" in the first loop
T89AfterSleep ==
    /\ pc = "t89_sleep"
    /\ now = wake
    /\ pc' = "t89_wait"
    /\ UNCHANGED <<wake, start_time, from_pass, to_pass, timeout_seconds, ret, printed>>

\* wait_for_pass_transition has returned transition_ok
T89AfterWait ==
    /\ pc = "wt_done"
    /\ IF ~ret["wait_for_pass_transition"]
       THEN /\ printed' = printed \cup {MsgNoTransition}
                 \cup (IF errors # <<>> THEN {MsgErrorsFound} ELSE {})
                 \cup (IF DiagnosisApplies(pass_completes, pass_starts)
                       THEN {MsgDiagnosis} ELSE {})
            /\ Returns("test_pass_transition_8_to_9", FALSE)
       ELSE /\ printed' = printed \cup {MsgPass9Started}
            /\ Returns("test_pass_transition_8_to_9", TRUE)
    /\ pc' = "t89_done"
    /\ UNCHANGED <<wake, start_time, from_pass, to_pass, timeout_seconds>>

test_pass_transition_8_to_9 ==
    /\ (T89Call \/ T89WaitPass8 \/ T89AfterSleep \/ T89AfterWait)
    /\ UNCHANGED <<last_activity_time, last_log_count, wait_start>>
    /\ UNCHANGED <<monitorVars, now, last_line_at, resultVars, scriptVars, runVars, helperVars, uiVars>>

InitT89 ==
    /\ MonitorInit
    /\ now = 0
    /\ last_line_at = -1
    /\ PollerAt("t89_call")
    /\ NoWaitArgs
    /\ ResultsInit
    /\ RunIdle
    /\ HelperIdle
    /\ UiIdle
    /\ ScriptIdle

\* the instants at which the page logs in SpecT89
ConsoleActive ==
    \/ pc = "t89_sleep" /\ now - start_time <= LineWindow
    \/ /\ pc \in {"wt_sleep1", "wt_sleep2"}
       /\ \/ now - wait_start <= LineWindow
          \/ now - wait_start >= timeout_seconds - LineWindow

t89_console == ConsoleActive /\ ConsoleDuringSleep(T89Lines, MaxT89Logs)

t89_error ==
    /\ pc = "t89_sleep"
    /\ now - start_time <= LineWindow
    /\ ErrorDuringSleep({ErrTimeout}, MaxErrors)

NextT89 ==
    \/ test_pass_transition_8_to_9
    \/ wait_for_pass_transition
    \/ SleepTick
    \/ t89_console
    \/ t89_error

SpecT89 == InitT89 /\ [][NextT89]_vars

T89Done == pc = "t89_done" /\ Returned("test_pass_transition_8_to_9")

\* C7 as stated: if the pass-8 completion line has been observed and no
\* pass-9 line is observed, test_pass_transition_8_to_9 returns False and
\* emits the diagnosis that pass 8 completed but pass 9 never started.
C7_AsStated ==
    (T89Done /\ 8 \in DOMAIN pass_completes /\ 9 \notin DOMAIN pass_starts) =>
        /\ ~ret["test_pass_transition_8_to_9"]
        /\ MsgDiagnosis \in printed

\* C7 amended: if the pass-8 completion line has been observed and no start
\* of pass 9 is recorded, test_pass_transition_8_to_9 returns False; it emits
\* the diagnosis exactly when a start of pass 8 was recorded during its first
\* 300-second wait, and otherwise reports that pass 8 never started.
C7_DiagnosisNeedsPass8Start ==
    (T89Done /\ 8 \in DOMAIN pass_completes /\ 9 \notin DOMAIN pass_starts) =>
        /\ ~ret["test_pass_transition_8_to_9"]
        /\ MsgDiagnosis \in printed <=> 8 \in DOMAIN pass_starts
        /\ MsgNeverStarted \in printed <=> 8 \notin DOMAIN pass_starts

\* pass 8 started and completed, pass 9 stayed away for the whole transition
\* timeout, and the diagnosis was printed
C7_Witness ==
    /\ T89Done
    /\ ~ret["test_pass_transition_8_to_9"]
    /\ MsgDiagnosis \in printed
    /\ 8 \in DOMAIN pass_completes
    /\ now - wait_start >= TransitionTimeout

-----------------------------------------------------------------------------
(* test_generation_completes *)

\* while time.time() - start_time < 600
GenTimeout == 600
\* await asyncio.sleep(5)
GenPoll == 5
\* if 10 in monitor.pass_completes
FinalPass == 10

MsgGenPass == "PASS: Generation completed"
MsgGenCritical == "FAIL: Critical errors found"
MsgGenTimeout == "FAIL: Generation did not complete within 10 minutes"

\* a faulty variant of CompletionSeen: the pass before the final one is looked for
CompletionSeenEarly(completes) == (FinalPass - 1) \in DOMAIN completes

\* a faulty variant of CompletionSeen: the completion of any pass counts
CompletionSeenAnyPass(completes) == DOMAIN completes # {}

\* if 10 in monitor.pass_completes
CompletionSeen(completes) == FinalPass \in DOMAIN completes

\* a faulty variant of critical_errors: only 'CRITICAL' is looked for
critical_errorsOnlyCritical(errs) ==
    SelectSeq(errs, LAMBDA e : Contains(e, LitCritical))

\* critical_errors = [e for e in monitor.errors if 'Error' in e or 'CRITICAL' in e]
critical_errors(errs) ==
    SelectSeq(errs, LAMBDA e : Contains(e, LitError) \/ Contains(e, LitCritical))

\* the locals test_generation_completes leaves alone
genFrame == <<from_pass, to_pass, timeout_seconds, last_activity_time, last_log_count,
              wait_start>>

\* start_time = time.time()
GenCall ==
    /\ pc = "gen_call"
    /\ start_time' = now
    /\ pc' = "gen_loop"
    /\ UNCHANGED <<wake, ret, printed, timed_out, genFrame>>

\* one evaluation of the loop condition and of the loop body up to its sleep
GenLoop ==
    /\ pc = "gen_loop"
    /\ IF WithinTimeout(now, start_time, GenTimeout)
       THEN IF CompletionSeen(pass_completes)
            THEN /\ printed' = printed \cup {MsgGenPass}
                 /\ Returns("test_generation_completes", TRUE)
                 /\ pc' = "gen_done"
                 /\ UNCHANGED <<wake, timed_out>>
            ELSE IF critical_errors(errors) # <<>>
                 THEN /\ printed' = printed \cup {MsgGenCritical}
                      /\ Returns("test_generation_completes", FALSE)
                      /\ pc' = "gen_done"
                      /\ UNCHANGED <<wake, timed_out>>
                 ELSE /\ Sleep(GenPoll, "gen_sleep")
                      /\ UNCHANGED <<ret, printed, timed_out>>
       ELSE /\ printed' = printed \cup {MsgGenTimeout}
            /\ Returns("test_generation_completes", FALSE)
            /\ timed_out' = timed_out \cup {"generation"}
            /\ pc' = "gen_done"
            /\ UNCHANGED wake
    /\ UNCHANGED <<start_time, genFrame>>

\* after "await asyncio.sleep(5)": back to the loop condition
GenAfterSleep ==
    /\ pc = "gen_sleep"
    /\ now = wake
    /\ pc' = "gen_loop"
    /\ UNCHANGED <<wake, start_time, ret, printed, timed_out, genFrame>>

test_generation_completes ==
    /\ (GenCall \/ GenLoop \/ GenAfterSleep)
    /\ UNCHANGED <<monitorVars, now, last_line_at, resultVars, script, step_log, line_gap, runVars, helperVars, uiVars>>

GenDone == pc = "gen_done" /\ Returned("test_generation_completes")

-----------------------------------------------------------------------------
(* SpecScenario: the console lines of passes 1 to 10, in order, while        *)
(* test_generation_completes polls                                          *)

\* seconds between two consecutive lines of the scenario, none above the
\* stall threshold
ScenarioGaps == {0, 1, 31, 32, hang_threshold_seconds}

\* the k-th line: start of pass 1, completion of pass 1, start of pass 2, ...
ScenarioLine(k) ==
    IF k % 2 = 1 THEN StartLine((k + 1) \div 2) ELSE CompleteLine(k \div 2)

ScenarioLen == 2 * FinalPass

\* the instant at which the next line of the scenario is logged
LineDueAt == IF last_line_at < 0 THEN 0 ELSE last_line_at + line_gap

LineDue == Len(console_logs) < ScenarioLen /\ now >= LineDueAt

InitScenario ==
    /\ MonitorInit
    /\ now = 0
    /\ last_line_at = -1
    /\ PollerAt("before")
    /\ NoWaitArgs
    /\ ResultsInit
    /\ RunIdle
    /\ HelperIdle
    /\ UiIdle
    /\ script = "none"
    /\ step_log = {}
    /\ timed_out = {}
    /\ line_gap \in ScenarioGaps

\* run_comprehensive_test reaches its fourth test; lines logged before that
\* have been recorded
scenario_start ==
    /\ pc = "before"
    /\ pc' = "gen_call"
    /\ UNCHANGED <<wake, start_time, ret, printed, genFrame>>
    /\ UNCHANGED <<monitorVars, now, last_line_at, resultVars, scriptVars, runVars, helperVars, uiVars>>

\* the page logs while the poller sleeps, and goes on logging once the test
\* has returned
ScenarioListening == Sleeping \/ pc = "gen_done"

\* the next line may be logged now: at once before the test begins,
\* line_gap seconds after the previous line afterwards
ScenarioLineReady == IF pc = "before" THEN TRUE ELSE now = LineDueAt

\* the next line of the scenario is logged
scenario_console ==
    /\ ScenarioListening
    /\ Len(console_logs) < ScenarioLen
    /\ ScenarioLineReady
    /\ OnConsole(ScenarioLine(Len(console_logs) + 1))
    /\ UNCHANGED <<now, pollerVars, resultVars, scriptVars, runVars, helperVars, uiVars>>

\* the clock may advance: the poller sleeps, or has returned with lines
\* still to come
ScenarioClockRuns ==
    IF pc = "gen_sleep" THEN now < wake
    ELSE pc = "gen_done" /\ Len(console_logs) < ScenarioLen

\* the clock advances when no line is due
ScenarioTick ==
    /\ ScenarioClockRuns
    /\ ~LineDue
    /\ now' = now + 1
    /\ UNCHANGED <<monitorVars, pollerVars, last_line_at, resultVars, scriptVars, runVars, helperVars, uiVars>>

NextScenario ==
    scenario_start \/ scenario_console \/ ScenarioTick \/ test_generation_completes

SpecScenario == InitScenario /\ [][NextScenario]_vars

\* C6 as stated: when the start and completion lines of passes 1 to 10 are
\* delivered in order, no gap above 120 seconds, no page error, then
\* pass_completes holds the keys 1 to 10 and test_generation_completes
\* returns True.
C6_AsStated ==
    (Len(console_logs) = ScenarioLen) =>
        /\ DOMAIN pass_completes = 1..FinalPass
        /\ GenDone => ret["test_generation_completes"]

\* C6 amended: when the lines are delivered so, pass_completes holds the
\* keys 1 to 10 once the last line is in, and test_generation_completes
\* returns True provided the completion line of pass 10 is delivered before
\* the last poll, made 595 seconds after the function began; when it comes
\* later the function returns False.
C6_SuccessWithinBudget ==
    /\ Len(console_logs) = ScenarioLen => DOMAIN pass_completes = 1..FinalPass
    /\ GenDone =>
         IF ret["test_generation_completes"]
         THEN /\ DOMAIN pass_completes = 1..FinalPass
              /\ pass_completes[FinalPass] <= start_time + GenTimeout - GenPoll
         ELSE /\ FinalPass \in DOMAIN pass_completes =>
                    pass_completes[FinalPass] >= start_time + GenTimeout - GenPoll
              /\ now - start_time >= GenTimeout

\* the twenty lines came in while the test was polling, the last of them
\* minutes after it began, and success was reported
C6_Witness ==
    /\ GenDone
    /\ ret["test_generation_completes"]
    /\ Len(console_logs) = ScenarioLen
    /\ last_pass_seen = FinalPass
    /\ pass_starts[1] >= start_time
    /\ pass_completes[FinalPass] > start_time + hang_threshold_seconds

-----------------------------------------------------------------------------
(* The timeout loops of test_draft_operations (Audit, Flow, Polish) and of   *)
(* capture_style_publish (generation of the preview)                        *)

\* while time.time() - start < 300 (Audit)
AuditTimeout == 300
\* while time.time() - start < 300 (Flow)
FlowTimeout == 300
\* while time.time() - start < 600 (Polish)
PolishTimeout == 600
\* time.sleep(5) in the Audit and Flow loops
DraftPoll == 5
\* time.sleep(10) in the Polish loop
PolishPoll == 10
\* while time.time() - start_time < 180
CaptureTimeout == 180
\* page.wait_for_timeout(5000)
CapturePoll == 5
\* if elapsed > 30 and not loading and iframe_count == 0
CaptureQuiet == 30

MsgAllCompleted == "=== ALL TESTS COMPLETED SUCCESSFULLY ==="
MsgCaptureWarning == "WARNING: Generation timed out"
MsgCaptureDone == "Generation complete!"
MsgCaptureInline == "Inline content detected!"
MsgCaptureComplete == "CAPTURE COMPLETE"
MsgNoGenerate == "No Generate button found"

MsgStepError(step) == "ERROR: " \o step \o " error"
MsgStepCompleted(step) == step \o " completed"
MsgStepRunning(step) == step \o " running..."

\* what the page shows at a poll of a draft operation: red text holding
\* "timeout" or "error", no spinner left, or the spinner still turning
DraftOutcomes == {"error", "done", "running"}

\* log(msg), print(msg)
Log(msg) == step_log' = step_log \cup {msg}

\* "if <step>_btn.count() > 0": click it and start = time.time(); else skip
DraftStepBegin(label, loop, next) ==
    /\ pc = label
    /\ \E present \in BOOLEAN :
          IF present
          THEN /\ start_time' = now
               /\ pc' = loop
          ELSE /\ pc' = next
               /\ UNCHANGED start_time
    /\ UNCHANGED <<wake, step_log, timed_out>>

\* "while time.time() - start < timeout: time.sleep(poll)"; when the condition
\* fails the script goes on to the screenshot and the next step
DraftLoopHead(loop, sleep, next, step, timeout, poll) ==
    /\ pc = loop
    /\ IF WithinTimeout(now, start_time, timeout)
       THEN /\ Sleep(poll, sleep)
            /\ UNCHANGED timed_out
       ELSE /\ pc' = next
            /\ timed_out' = timed_out \cup {step}
            /\ UNCHANGED wake
    /\ UNCHANGED <<start_time, step_log>>

\* the body of the loop after its sleep: raise on an error text (caught by
\* the except clause of the script, which logs and re-raises), break when the
\* spinner is gone, else log and loop
DraftLoopBody(sleep, loop, next, step) ==
    /\ pc = sleep
    /\ now = wake
    /\ \E outcome \in DraftOutcomes :
          CASE outcome = "error" ->
                  /\ Log(MsgStepError(step))
                  /\ pc' = "draft_failed"
            [] outcome = "done" ->
                  /\ Log(MsgStepCompleted(step))
                  /\ pc' = next
            [] outcome = "running" ->
                  /\ Log(MsgStepRunning(step))
                  /\ pc' = loop
    /\ UNCHANGED <<wake, start_time, timed_out>>

AuditStep ==
    \/ DraftStepBegin("draft_audit", "audit_loop", "draft_flow")
    \/ DraftLoopHead("audit_loop", "audit_sleep", "draft_flow", "Audit", AuditTimeout, DraftPoll)
    \/ DraftLoopBody("audit_sleep", "audit_loop", "draft_flow", "Audit")

FlowStep ==
    \/ DraftStepBegin("draft_flow", "flow_loop", "draft_polish")
    \/ DraftLoopHead("flow_loop", "flow_sleep", "draft_polish", "Flow", FlowTimeout, DraftPoll)
    \/ DraftLoopBody("flow_sleep", "flow_loop", "draft_polish", "Flow")

PolishStep ==
    \/ DraftStepBegin("draft_polish", "polish_loop", "draft_final")
    \/ DraftLoopHead("polish_loop", "polish_sleep", "draft_final", "Polish", PolishTimeout, PolishPoll)
    \/ DraftLoopBody("polish_sleep", "polish_loop", "draft_final", "Polish")

\* Step 14 and the closing log lines
DraftFinal ==
    /\ pc = "draft_final"
    /\ Log(MsgAllCompleted)
    /\ pc' = "draft_done"
    /\ UNCHANGED <<wake, start_time, timed_out>>

\* steps 11 to 14 of test_draft_operations
test_draft_operations ==
    /\ (AuditStep \/ FlowStep \/ PolishStep \/ DraftFinal)
    /\ UNCHANGED <<from_pass, to_pass, timeout_seconds, last_activity_time,
                   last_log_count, wait_start, ret, printed, script, line_gap>>
    /\ UNCHANGED <<monitorVars, now, last_line_at, resultVars, runVars, helperVars, uiVars>>

\* "if gen_btn:" of capture_style_publish: click it and start the clock
CaptureBegin ==
    /\ pc = "cap_start"
    /\ \E found \in BOOLEAN :
          IF found
          THEN /\ start_time' = now
               /\ pc' = "cap_loop"
               /\ UNCHANGED step_log
          ELSE /\ Log(MsgNoGenerate)
               /\ pc' = "cap_summary"
               /\ UNCHANGED start_time
    /\ UNCHANGED <<wake, timed_out>>

\* "while time.time() - start_time < 180: page.wait_for_timeout(5000)"; when
\* the condition fails generation_complete is still False
CaptureLoopHead ==
    /\ pc = "cap_loop"
    /\ IF WithinTimeout(now, start_time, CaptureTimeout)
       THEN /\ Sleep(CapturePoll, "cap_sleep")
            /\ UNCHANGED <<step_log, timed_out>>
       ELSE /\ Log(MsgCaptureWarning)
            /\ timed_out' = timed_out \cup {"Generation"}
            /\ pc' = "cap_summary"
            /\ UNCHANGED wake
    /\ UNCHANGED start_time

\* the body of the loop after its wait
CaptureLoopBody ==
    /\ pc = "cap_sleep"
    /\ now = wake
    /\ \E iframes \in BOOLEAN, loading \in BOOLEAN, rendered \in BOOLEAN :
          IF iframes
          THEN /\ Log(MsgCaptureDone)
               /\ Sleep(CapturePoll, "cap_settle")
          ELSE IF now - start_time > CaptureQuiet /\ ~loading /\ rendered
               THEN /\ Log(MsgCaptureInline)
                    /\ pc' = "cap_summary"
                    /\ UNCHANGED wake
               ELSE /\ pc' = "cap_loop"
                    /\ UNCHANGED <<wake, step_log>>
    /\ UNCHANGED <<start_time, timed_out>>

\* after the wait that follows "Generation complete!"
CaptureSettled ==
    /\ pc = "cap_settle"
    /\ now = wake
    /\ pc' = "cap_summary"
    /\ UNCHANGED <<wake, start_time, step_log, timed_out>>

\* the summary at the end of main
CaptureSummary ==
    /\ pc = "cap_summary"
    /\ Log(MsgCaptureComplete)
    /\ pc' = "cap_done"
    /\ UNCHANGED <<wake, start_time, timed_out>>

\* steps 9 and the summary of capture_style_publish.main
capture_style_publish ==
    /\ (CaptureBegin \/ CaptureLoopHead \/ CaptureLoopBody \/ CaptureSettled
          \/ CaptureSummary)
    /\ UNCHANGED <<from_pass, to_pass, timeout_seconds, last_activity_time,
                   last_log_count, wait_start, ret, printed, script, line_gap>>
    /\ UNCHANGED <<monitorVars, now, last_line_at, resultVars, runVars, helperVars, uiVars>>

ScriptEntry(s) ==
    CASE s = "test_draft_operations" -> "draft_audit"
      [] s = "capture_style_publish" -> "cap_start"
      [] s = "content_generation_flow_test" -> "gen_call"

InitTimeouts ==
    /\ MonitorInit
    /\ now = 0
    /\ last_line_at = -1
    /\ script \in {"test_draft_operations", "capture_style_publish",
                   "content_generation_flow_test"}
    /\ PollerAt(ScriptEntry(script))
    /\ NoWaitArgs
    /\ ResultsInit
    /\ RunIdle
    /\ HelperIdle
    /\ UiIdle
    /\ step_log = {}
    /\ timed_out = {}
    /\ line_gap = 0

\* the instants at which the page logs while test_generation_completes polls
GenConsoleActive ==
    /\ pc = "gen_sleep"
    /\ \/ now - start_time <= LineWindow
       \/ now - start_time >= GenTimeout - GenPoll - LineWindow

GenLines == {CompleteLine(FinalPass), CompleteLine(FinalPass - 1)}

timeouts_console == GenConsoleActive /\ ConsoleDuringSleep(GenLines, MaxLogs)

timeouts_error == GenConsoleActive /\ ErrorDuringSleep(ErrorTexts, MaxErrors)

NextTimeouts ==
    \/ test_draft_operations
    \/ capture_style_publish
    \/ test_generation_completes
    \/ timeouts_console
    \/ timeouts_error
    \/ SleepTick

SpecTimeouts == InitTimeouts /\ [][NextTimeouts]_vars

\* the script has run to its end, or has failed
ScriptFinished == pc \in {"draft_done", "draft_failed", "cap_done", "gen_done"}

\* the failure a polling loop records when it gives up
FailureRecorded(step) ==
    CASE step \in {"Audit", "Flow", "Polish"} -> MsgStepError(step) \in step_log
      [] step = "Generation" -> MsgCaptureWarning \in step_log
      [] step = "generation" ->
            /\ MsgGenTimeout \in printed
            /\ GenDone
            /\ ~ret["test_generation_completes"]

\* the step, or the whole run, is reported as completed
SuccessReported(step) ==
    CASE step \in {"Audit", "Flow", "Polish"} ->
            MsgStepCompleted(step) \in step_log \/ MsgAllCompleted \in step_log
      [] step = "Generation" ->
            MsgCaptureDone \in step_log \/ MsgCaptureInline \in step_log
      [] step = "generation" -> MsgGenPass \in printed

\* C10: whenever a polling loop exits because its timeout elapsed (Audit,
\* Flow 300 s, Polish 600 s, the 180 s loop of capture_style_publish, the
\* 600 s loop of test_generation_completes), a failure is recorded for that
\* step, and the step or the run is never reported as completed.
C10_TimeoutRecordsFailure ==
    \A step \in timed_out :
        /\ ~SuccessReported(step)
        /\ ScriptFinished => FailureRecorded(step)

-----------------------------------------------------------------------------
(* run_all_tests of tests/e2e/02_comprehensive_tests.py *)

\* test functions of one run whose recorded outcome is not PASS
MaxNonPass == 2

\* the calls of the try block, in the order of the source
RunSteps ==
    <<"test_login", "test_load_project", "test_project_header", "test_select_map",
      "test_map_statistics", "take_screenshot", "test_topic_list", "test_topic_search",
      "test_topic_filter", "test_open_brief_modal", "test_close_modal",
      "test_content_generation_ui", "test_audit_score_display", "test_audit_rules",
      "test_settings_access", "test_ai_usage_access">>

\* the phase functions that follow test_login
PhaseFunctions ==
    <<"test_load_project", "test_project_header", "test_select_map",
      "test_map_statistics", "test_topic_list", "test_topic_search",
      "test_topic_filter", "test_open_brief_modal", "test_close_modal",
      "test_content_generation_ui", "test_audit_score_display", "test_audit_rules",
      "test_settings_access", "test_ai_usage_access">>

\* one add_result call of a test function
Rec(category, name, status) == [category |-> category, name |-> name, status |-> status]

\* a test function returns after the add_result calls recs
Return(recs, value) == [records |-> recs, exit |-> "return", value |-> value]

\* a page interaction outside every try block raises after the add_result calls recs
Raise(recs) == [records |-> recs, exit |-> "raise", value |-> FALSE]

\* what one call of a function of the try block can do: the add_result calls
\* it makes, and whether it returns (and what) or lets an exception out
Outcomes(fn) ==
    CASE fn = "test_login" ->
           {Return(<<Rec("Authentication", "Login", "PASS")>>, TRUE),
            Return(<<Rec("Authentication", "Login", "FAIL")>>, FALSE),
            Return(<<Rec("Authentication", "Login", "SKIP")>>, TRUE),
            Raise(<<>>)}
      [] fn = "test_load_project" ->
           {Return(<<Rec("Project Management", "Load project", "PASS")>>, TRUE),
            Return(<<Rec("Project Management", "Load project", "FAIL")>>, FALSE),
            Raise(<<>>)}
      [] fn = "test_project_header" ->
           {Return(<<Rec("Project Management", "Project header elements", "PASS")>>, TRUE),
            Return(<<Rec("Project Management", "Project header elements", "FAIL")>>, TRUE),
            Raise(<<>>)}
      [] fn = "test_select_map" ->
           {Return(<<Rec("Map Management", "Select topical map", "PASS")>>, TRUE),
            Return(<<Rec("Map Management", "Select topical map", "SKIP")>>, FALSE),
            Raise(<<>>)}
      [] fn = "test_map_statistics" ->
           {Return(<<Rec("Map Management", "Map statistics display", "PASS")>>, TRUE),
            Return(<<Rec("Map Management", "Map statistics display", "SKIP")>>, TRUE),
            Raise(<<>>)}
      [] fn = "take_screenshot" ->
           {Return(<<>>, TRUE), Raise(<<>>)}
      [] fn = "test_topic_list" ->
           {Return(<<Rec("Topic Management", "Topic list display", "PASS")>>, TRUE),
            Return(<<Rec("Topic Management", "Topic list display", "FAIL")>>, FALSE),
            Raise(<<>>)}
      [] fn = "test_topic_search" ->
           {Return(<<Rec("Topic Management", "Topic search", "PASS")>>, TRUE),
            Return(<<Rec("Topic Management", "Topic search", "SKIP")>>, FALSE),
            Raise(<<>>),
            Raise(<<Rec("Topic Management", "Topic search", "PASS")>>)}
      [] fn = "test_topic_filter" ->
           {Return(<<Rec("Topic Management", "Topic filters", "PASS")>>, TRUE),
            Return(<<Rec("Topic Management", "Topic filters", "SKIP")>>, TRUE),
            Raise(<<>>)}
      [] fn = "test_open_brief_modal" ->
           {Return(<<Rec("Content Brief", "Open brief modal", "PASS"),
                     Rec("Content Brief", "Brief modal content", "PASS")>>, TRUE),
            Return(<<Rec("Content Brief", "Open brief modal", "PASS"),
                     Rec("Content Brief", "Brief modal content", "FAIL")>>, TRUE),
            Return(<<Rec("Content Brief", "Open brief modal", "PASS")>>, TRUE),
            Return(<<Rec("Content Brief", "Open brief modal", "FAIL")>>, FALSE),
            Raise(<<>>)}
      [] fn = "test_close_modal" ->
           {Return(<<>>, TRUE)}
      [] fn = "test_content_generation_ui" ->
           {Return(<<Rec("Content Generation", "Generation UI elements", "PASS")>>, TRUE),
            Return(<<Rec("Content Generation", "Generation UI elements", "SKIP")>>, TRUE),
            Raise(<<>>)}
      [] fn = "test_audit_score_display" ->
           {Return(<<Rec("Quality Audit", "Audit score display", "PASS")>>, TRUE),
            Return(<<Rec("Quality Audit", "Audit score display", "SKIP")>>, FALSE)}
      [] fn = "test_audit_rules" ->
           {Return(<<Rec("Quality Audit", "Audit rules display", "PASS")>>, TRUE),
            Return(<<Rec("Quality Audit", "Audit rules display", "SKIP")>>, TRUE)}
      [] fn = "test_settings_access" ->
           {Return(<<Rec("Settings", "Settings access", "PASS"),
                     Rec("Settings", "API key settings", "PASS")>>, TRUE),
            Return(<<Rec("Settings", "Settings access", "PASS"),
                     Rec("Settings", "Settings access", "SKIP")>>, FALSE),
            Return(<<Rec("Settings", "Settings access", "PASS"),
                     Rec("Settings", "API key settings", "SKIP")>>, TRUE),
            Return(<<Rec("Settings", "Settings access", "SKIP")>>, FALSE),
            Raise(<<>>)}
      [] fn = "test_ai_usage_access" ->
           {Return(<<Rec("Analytics", "AI usage dashboard", "PASS")>>, TRUE),
            Return(<<Rec("Analytics", "AI usage dashboard", "FAIL")>>, FALSE),
            Return(<<Rec("Analytics", "AI usage dashboard", "SKIP")>>, FALSE),
            Raise(<<>>)}

\* the number of records of recs that are not PASS
NonPass(recs) == Cardinality({i \in 1..Len(recs) : recs[i].status # "PASS"})

RECURSIVE CountAfter(_, _, _)
\* the counter named by field ("passed", "failed" or "skipped") after the
\* add_result calls recs, n being its value before them
CountAfter(field, recs, n) ==
    IF recs = <<>> THEN n
    ELSE CountAfter(field, Tail(recs),
                    CASE field = "passed" -> PassedAfter(Head(recs).status, n)
                      [] field = "failed" -> FailedAfter(Head(recs).status, n)
                      [] field = "skipped" -> SkippedAfter(Head(recs).status, n))

\* the add_result calls recs, made one after the other
AddResults(recs) ==
    /\ tests' = tests \o [i \in 1..Len(recs) |->
                            [category |-> recs[i].category, name |-> recs[i].name,
                             status |-> recs[i].status, details |-> "",
                             screenshot |-> "None", timestamp |-> now]]
    /\ passed' = CountAfter("passed", recs, passed)
    /\ failed' = CountAfter("failed", recs, failed)
    /\ skipped' = CountAfter("skipped", recs, skipped)

\* a faulty variant of NextCall: a step that recorded a FAIL is called again
NextCallRetry(i, outcome) ==
    IF \E k \in 1..Len(outcome.records) : outcome.records[k].status = "FAIL"
    THEN i ELSE i + 1

\* the statement after call number i of the try block: the next call
NextCall(i, outcome) == i + 1

\* a faulty variant of AfterReturn: the return leaves the function at once
AfterReturnSkipsFinally == "done"

\* "return" inside the try block: the finally clause runs before the function
\* is left
AfterReturn == "finally"

\* where a call of the try block continues: "if not test_login(page): return",
\* the except clause after an exception, the next call, or the end of the block
AfterCall(i, outcome) ==
    IF outcome.exit = "raise" THEN "except"
    ELSE IF RunSteps[i] = "test_login" /\ ~outcome.value THEN AfterReturn
    ELSE IF NextCall(i, outcome) > Len(RunSteps) THEN "finally"
    ELSE "call"

runFrame == <<monitorVars, now, pollerVars, last_line_at, scriptVars, helperVars, uiVars>>

\* categories[cat] = {'pass': 0, 'fail': 0, 'skip': 0}
NoCounts == [pass |-> 0, fail |-> 0, skip |-> 0]

\* a faulty variant of CountsAfter: every status other than PASS and FAIL is
\* left out of the counts
CountsAfterKnownOnly(counts, status) ==
    IF status = "PASS" THEN [counts EXCEPT !.pass = @ + 1]
    ELSE IF status = "FAIL" THEN [counts EXCEPT !.fail = @ + 1]
    ELSE IF status = "SKIP" THEN [counts EXCEPT !.skip = @ + 1]
    ELSE counts

\* if test['status'] == 'PASS': ... elif test['status'] == 'FAIL': ... else: ...
CountsAfter(counts, status) ==
    IF status = "PASS" THEN [counts EXCEPT !.pass = @ + 1]
    ELSE IF status = "FAIL" THEN [counts EXCEPT !.fail = @ + 1]
    ELSE [counts EXCEPT !.skip = @ + 1]

\* the dict categories of generate_final_report after the loop over ts
RECURSIVE Categorize(_)
Categorize(ts) ==
    IF ts = <<>> THEN EmptyDict
    ELSE LET before == Categorize(SubSeq(ts, 1, Len(ts) - 1))
             test == ts[Len(ts)]
             cat == test.category
             counts == IF cat \in DOMAIN before THEN before[cat] ELSE NoCounts
         IN  DictSet(before, cat, CountsAfter(counts, test.status))

\* generate_final_report(): the report it saves
GenerateFinalReport ==
    /\ report' = [summary |-> summary, categories |-> Categorize(tests)]
    /\ reports' = reports + 1

\* run_all_tests enters its try block
RunBegin ==
    /\ run_pc = "idle"
    /\ run_pc' = "call"
    /\ UNCHANGED <<run_step, called, reports, browser_closed, caught, escaped, report,
                   resultVars>>

\* one call of the try block
RunCall ==
    /\ run_pc = "call"
    /\ LET i == run_step
       IN \E outcome \in Outcomes(RunSteps[i]) :
            /\ failed + skipped + NonPass(outcome.records) <= MaxNonPass
            /\ AddResults(outcome.records)
            /\ called' = Append(called, RunSteps[i])
            /\ run_step' = NextCall(i, outcome)
            /\ run_pc' = AfterCall(i, outcome)
    /\ UNCHANGED <<reports, browser_closed, caught, escaped, report>>

\* "except Exception as e": print, traceback, take_screenshot(page,
\* "critical_error"); the screenshot can raise in its turn
RunExcept ==
    /\ run_pc = "except"
    /\ caught' = TRUE
    /\ \E screenshot_raises \in BOOLEAN : escaped' = screenshot_raises
    /\ run_pc' = "finally"
    /\ UNCHANGED <<run_step, called, reports, browser_closed, report, resultVars>>

\* "finally": generate_final_report() and browser.close()
RunFinally ==
    /\ run_pc = "finally"
    /\ GenerateFinalReport
    /\ browser_closed' = TRUE
    /\ run_pc' = "done"
    /\ UNCHANGED <<run_step, called, caught, escaped, resultVars>>

run_all_tests ==
    /\ (RunBegin \/ RunCall \/ RunExcept \/ RunFinally)
    /\ UNCHANGED runFrame

NextRun == run_all_tests

SpecRun == Init /\ [][NextRun]_vars

\* run_all_tests has been left
RunDone == run_pc = "done"

\* test_login was called and returned True
LoginReturnedTrue ==
    /\ Len(called) >= 1
    /\ Len(tests) >= 1
    /\ tests[1].status \in {"PASS", "SKIP"}

\* s is an initial part of t
IsPrefix(s, t) == Len(s) <= Len(t) /\ \A i \in 1..Len(s) : s[i] = t[i]

\* f is one of the phase functions that follow test_login
IsPhase(f) == \E k \in 1..Len(PhaseFunctions) : PhaseFunctions[k] = f

\* the phase functions invoked so far, in the order of their invocation
PhasesCalled == SelectSeq(called, IsPhase)

-----------------------------------------------------------------------------
(* The fallback selector chains *)

\* the functions that try a list of selectors one after the other
ChainNames ==
    {"select_project", "select_map", "test_settings_access",
     "test_audit_score_display", "gen_selectors"}

\* the test functions that record their outcome under a fixed name after
\* trying several ways to reach an element ('Open brief modal': Methods 1 to
\* 4; 'Settings access': the settings selectors)
OutcomeRecorders == {"test_open_brief_modal", "test_settings_access"}

\* the list of selectors of each chain
ChainSelectors(c) ==
    CASE c = "select_project" ->
           <<"button:has-text(Select Project)", "button:has-text(project)",
             "[data-testid=project-selector]", "text=Select Project">>
      [] c = "select_map" ->
           <<"button:has-text(Select Map)", "button:has-text(Map)",
             "[data-testid=map-selector]">>
      [] c = "test_settings_access" ->
           <<"button:has-text(Settings)", "[aria-label=Settings]",
             "button:has([class*=cog])", "button:has([class*=gear])",
             "[class*=settings]", "svg[class*=cog]", "aside button">>
      [] c = "test_audit_score_display" ->
           <<"text=/Quality:?\\s*\\d+%/i", "text=/Score:?\\s*\\d+/i",
             "text=/\\d+%.*quality/i">>
      [] c = "gen_selectors" ->
           <<"button:has-text(Generate Preview)", "button:has-text(Generate)",
             "button:has-text(Render)", "button:has-text(Build Preview)">>
      [] c = "test_open_brief_modal" ->
           <<"find_topic_with_brief", "tr:has(td)", "text=/wat is|hoe|waarom/i",
             "button:has-text(Brief)">>

\* the chains whose loop body does more than look at the element: after the
\* click a second element must be visible, else the loop goes on
HasFollowUp(c) ==
    c \in {"select_project", "select_map", "test_settings_access", "test_open_brief_modal"}

\* the chains that call further functions between producing the success
\* outcome and their return, inside the try block of the loop body
\* (test_settings_access: test_api_key_settings and test_close_modal after
\* add_result; test_open_brief_modal: test_brief_modal_content after add_result)
CallsAfterSuccess(c) == c \in {"test_settings_access", "test_open_brief_modal"}

\* the passes through the loop body that make those calls: every selector of
\* test_settings_access, Method 1 of test_open_brief_modal
NestedCallAt(c, i) ==
    \/ c = "test_settings_access"
    \/ c = "test_open_brief_modal" /\ i = 1

\* what one pass through the loop body can do
TryOutcomes(c) ==
    {"not_visible", "raised", "success"}
      \cup (IF HasFollowUp(c) THEN {"no_target"} ELSE {})
      \cup (IF CallsAfterSuccess(c) THEN {"success_then_raised"} ELSE {})

\* the chains with one more attempt after the loop (select_project: the
\* project name directly in the page; test_settings_access: the sidebar buttons)
HasAlternative(c) == c \in {"select_project", "test_settings_access"}

\* what the attempt after the loop can do
AlternativeOutcomes(c) ==
    {"miss", "success"} \cup (IF CallsAfterSuccess(c) THEN {"success_then_raised"} ELSE {})

\* the chains whose failure outcome takes a screenshot first, outside every
\* try block
FailureCanRaise(c) == c \in {"test_settings_access", "test_open_brief_modal"}

\* an outcome produced after `at` selectors were tried
Produced(kind, at) == [kind |-> kind, at |-> at]

\* the statement reached after the loop body ran with selector number i
AfterTry(c, i, outcome) ==
    IF outcome = "success" THEN "done"
    ELSE IF i < Len(ChainSelectors(c)) THEN "loop"
    ELSE IF HasAlternative(c) THEN "alternative"
    ELSE "failure"

chainFrame == <<monitorVars, now, pollerVars, last_line_at, resultVars, scriptVars, runVars, uiVars>>

\* "for selector in selectors: try: ... except: continue"
ChainTry ==
    /\ helper_pc = "loop"
    /\ \E outcome \in TryOutcomes(helper) :
          /\ outcome = "success_then_raised" => NestedCallAt(helper, sel)
          /\ tried' = Append(tried, ChainSelectors(helper)[sel])
          /\ produced' = IF outcome \in {"success", "success_then_raised"}
                         THEN Append(produced, Produced("success", sel))
                         ELSE produced
          /\ suppressed' = IF outcome \in {"raised", "success_then_raised"}
                           THEN suppressed + 1 ELSE suppressed
          /\ helper_pc' = AfterTry(helper, sel, outcome)
          /\ sel' = IF outcome = "success" THEN sel ELSE sel + 1
    /\ UNCHANGED <<helper, propagated>>

\* the attempt after the loop
ChainAlternative ==
    /\ helper_pc = "alternative"
    /\ \E outcome \in AlternativeOutcomes(helper) :
          /\ produced' = IF outcome \in {"success", "success_then_raised"}
                         THEN Append(produced, Produced("success", Len(tried)))
                         ELSE produced
          /\ suppressed' = IF outcome = "success_then_raised"
                           THEN suppressed + 1 ELSE suppressed
          /\ helper_pc' = IF outcome = "success" THEN "done" ELSE "failure"
    /\ UNCHANGED <<helper, sel, tried, propagated>>

\* the failure outcome: a message, or a SKIP record
ChainFailure ==
    /\ helper_pc = "failure"
    /\ \E raises \in (IF FailureCanRaise(helper) THEN BOOLEAN ELSE {FALSE}) :
          /\ propagated' = raises
          /\ produced' = IF raises THEN produced
                         ELSE Append(produced, Produced("failure", Len(tried)))
    /\ helper_pc' = "done"
    /\ UNCHANGED <<helper, sel, tried, suppressed>>

selector_chain ==
    /\ (ChainTry \/ ChainAlternative \/ ChainFailure)
    /\ UNCHANGED chainFrame

-----------------------------------------------------------------------------
(* The modal-closing helpers *)

ModalHelpers == {"force_close_all_modals", "test_close_modal"}

\* close_selectors of test_close_modal
CloseSelectors ==
    <<"button:has-text(Close):not([disabled])", "button[aria-label=Close]:not([disabled])",
      "button:has-text(x):not([disabled])", "button:has-text(X):not([disabled])">>

\* the page interactions of the two helpers that stand directly in the
\* function's own try block, by position:
\*   force_close_all_modals: evaluate, wait
\*   test_close_modal: press (Escape), wait_press, modal_visible, inner_wait,
\*                     still_visible, backdrop, backdrop_wait
HelperPositions(f) ==
    IF f = "force_close_all_modals" THEN {"evaluate", "wait"}
    ELSE {"press", "wait_press", "modal_visible", "inner_wait", "still_visible",
          "backdrop", "backdrop_wait"}

\* what a page interaction can do: is_visible answers or raises, the others
\* complete or raise
StatementOutcomes(position) ==
    IF position \in {"modal_visible", "still_visible"}
    THEN {"true", "false", "raise"}
    ELSE {"ok", "raise"}

\* the statement after the one at position, when it did not raise
HelperNext(position, outcome) ==
    CASE position = "evaluate" -> "wait"
      [] position = "wait" -> "done"
      [] position = "press" -> "wait_press"
      [] position = "wait_press" -> "modal_visible"
      [] position = "modal_visible" -> IF outcome = "true" THEN "inner_force" ELSE "close_loop"
      [] position = "inner_wait" -> "still_visible"
      [] position = "still_visible" -> IF outcome = "true" THEN "backdrop" ELSE "close_loop"
      [] position = "backdrop" -> "backdrop_wait"
      [] position = "backdrop_wait" -> "close_loop"

\* a faulty variant of Guarded: the try block begins after the Escape key press
GuardedAfterPress(f, position) == position # "press"

\* whether the statement at position is inside the try block of f whose
\* except clause is "except: pass": every statement of both helpers is
Guarded(f, position) == TRUE

\* a page interaction of a helper's own try block
HelperStatement ==
    /\ helper \in ModalHelpers
    /\ helper_pc \in HelperPositions(helper)
    /\ \E outcome \in StatementOutcomes(helper_pc) :
          IF outcome = "raise"
          THEN /\ helper_pc' = "done"
               /\ suppressed' = IF Guarded(helper, helper_pc) THEN suppressed + 1 ELSE suppressed
               /\ propagated' = ~Guarded(helper, helper_pc)
          ELSE /\ helper_pc' = HelperNext(helper_pc, outcome)
               /\ UNCHANGED <<suppressed, propagated>>
    /\ UNCHANGED <<helper, sel, tried, produced>>

\* test_close_modal calls force_close_all_modals, which returns whether or
\* not its own except clause had to swallow an exception
HelperCallsForceClose ==
    /\ helper = "test_close_modal"
    /\ helper_pc \in {"inner_force", "final_force"}
    /\ \E swallowed \in BOOLEAN :
          suppressed' = IF swallowed THEN suppressed + 1 ELSE suppressed
    /\ helper_pc' = IF helper_pc = "inner_force" THEN "inner_wait" ELSE "done"
    /\ UNCHANGED <<helper, sel, tried, produced, propagated>>

\* "for selector in close_selectors: try: ... return  except: continue"
HelperCloseLoop ==
    /\ helper = "test_close_modal"
    /\ helper_pc = "close_loop"
    /\ \E outcome \in {"not_visible", "raised", "clicked"} :
          /\ tried' = Append(tried, CloseSelectors[sel])
          /\ suppressed' = IF outcome = "raised" THEN suppressed + 1 ELSE suppressed
          /\ helper_pc' = IF outcome = "clicked" THEN "done"
                          ELSE IF sel < Len(CloseSelectors) THEN "close_loop"
                          ELSE "final_force"
          /\ sel' = IF outcome = "clicked" THEN sel ELSE sel + 1
    /\ UNCHANGED <<helper, produced, propagated>>

modal_helper ==
    /\ (HelperStatement \/ HelperCallsForceClose \/ HelperCloseLoop)
    /\ UNCHANGED chainFrame

\* the first statement of a helper
HelperEntry(f) ==
    CASE f = "force_close_all_modals" -> "evaluate"
      [] f = "test_close_modal" -> "press"
      [] OTHER -> "loop"

InitHelpers ==
    /\ MonitorInit
    /\ now = 0
    /\ last_line_at = -1
    /\ PollerIdle
    /\ ResultsInit
    /\ RunIdle
    /\ ScriptIdle
    /\ \E f \in ChainNames \cup OutcomeRecorders \cup ModalHelpers :
          HelperAt(f, HelperEntry(f))
    /\ UiIdle

NextHelpers == selector_chain \/ modal_helper

SpecHelpers == InitHelpers /\ [][NextHelpers]_vars


\* the outcomes of the given kind produced so far
ProducedOf(kind) == {i \in 1..Len(produced) : produced[i].kind = kind}

\* C12: in every chain the selectors are tried in list order; once a selector
\* has succeeded its success outcome has been produced once, no later
\* selector is tried and no failure outcome follows; the failure outcome is
\* produced only after every selector has been tried without success.
C12_ChainStopsAtFirstSuccess ==
    helper \in ChainNames =>
        /\ IsPrefix(tried, ChainSelectors(helper))
        /\ Cardinality(ProducedOf("success")) <= 1
        /\ \A i \in ProducedOf("success") : Len(tried) = produced[i].at
        /\ \A i \in ProducedOf("failure") :
              /\ Len(tried) = Len(ChainSelectors(helper))
              /\ ProducedOf("success") = {}

\* C18: test_close_modal and force_close_all_modals never let an exception
\* reach their caller, whichever page interaction inside them raises.
C18_ModalHelpersNeverRaise ==
    helper \in ModalHelpers => ~propagated

\* test_close_modal returned although page interactions inside it raised
C18_Witness ==
    /\ helper = "test_close_modal"
    /\ helper_pc = "done"
    /\ suppressed >= 2
    /\ ~propagated

C15_CompletedWithoutStart ==
    \A p \in DOMAIN pass_completes :
        p \notin DOMAIN pass_starts => last_pass_seen > p

\* pass 8 is recorded as completed and not as started
C15_Witness ==
    /\ 8 \in DOMAIN pass_completes
    /\ 8 \notin DOMAIN pass_starts

\* this step is on_error(text)
ErrorStep(text) == errors' = Append(errors, text)

\* C16: every on_error call appends exactly one entry to errors and leaves
\* console_logs, pass_starts, pass_completes and last_pass_seen unchanged, and
\* no other call changes errors: get_summary()['error_count'] grows by one
\* with each on_error call and with nothing else.
C16_OnErrorFrame ==
    [][ /\ \A text \in ErrorTexts :
              ErrorStep(text) =>
                  /\ Len(errors') = Len(errors) + 1
                  /\ UNCHANGED <<console_logs, pass_starts, pass_completes, last_pass_seen>>
        /\ get_summary.error_count = Len(errors)
        /\ (\A text \in ErrorTexts : ~ErrorStep(text)) => UNCHANGED errors ]_vars

\* an error arrived at a monitor that had recorded a completion and a start
C16_Witness ==
    /\ Len(errors) = 1
    /\ get_summary.error_count = 1
    /\ console_logs = <<LineAfterPass8, LinePass9>>
    /\ 9 \in DOMAIN pass_starts

\* C17: test_no_hang_between_passes returns False only if there really was a
\* period of more than 120 seconds without a new console line: when it
\* returns False, no line has been delivered for more than 120 seconds (since
\* the last line, or since the monitoring began when no line came after
\* that); so log activity with no such period is never flagged.
C17_SteadyActivityNotFlagged ==
    (pc = "hang_done" /\ SilenceNow <= hang_threshold_seconds) =>
        ret["test_no_hang_between_passes"]

\* lines kept coming and the function returned True at the end of the window
C17_Witness ==
    /\ HangDone
    /\ ret["test_no_hang_between_passes"]
    /\ Len(console_logs) = MaxHangLogs
    /\ SilenceNow <= hang_threshold_seconds

\* C19: a line of the shape "[runPasses] After Pass X: current_pass=Y" records
\* X in pass_completes and leaves pass_starts and last_pass_seen unchanged.
C19_CompletionLineLeavesStarts ==
    [][ ConsoleStep(LineAfterPass8) =>
            /\ 8 \in DOMAIN pass_completes'
            /\ UNCHANGED <<pass_starts, last_pass_seen>> ]_vars

-----------------------------------------------------------------------------
(* test_no_hang_between_passes called after the generation has finished *)

\* the last line of a generation: "[runPasses] After Pass 10: current_pass=11"
LineAfterPass10 == CompleteLine(FinalPass)

InitHangAfter ==
    /\ MonitorInit
    /\ now = 0
    /\ last_line_at = -1
    /\ PollerAt("hang_before")
    /\ NoWaitArgs
    /\ ResultsInit
    /\ RunIdle
    /\ HelperIdle
    /\ UiIdle
    /\ ScriptIdle

\* the earlier tests of run_comprehensive_test are running: the generation
\* logs the completion of its last pass
hang_after_generation ==
    /\ pc = "hang_before"
    /\ ConsoleDuringSleep({LineAfterPass10}, 1)

\* results['no_hang'] = await test_no_hang_between_passes(page, monitor)
hang_caller ==
    /\ pc = "hang_before"
    /\ pc' = "hang_call"
    /\ UNCHANGED <<wake, start_time, last_activity_time, last_log_count, ret, printed,
                   hangFrame>>
    /\ UNCHANGED <<monitorVars, now, last_line_at, resultVars, scriptVars, runVars, helperVars, uiVars>>

NextHangAfter ==
    \/ hang_after_generation
    \/ hang_caller
    \/ test_no_hang_between_passes
    \/ SleepTick
    \/ hang_console

SpecHangAfter == InitHangAfter /\ [][NextHangAfter]_vars

\* C21: when wait_for_pass_transition returns False, to_pass is not a key of
\* pass_starts at the moment of return.
C21_FalseMeansAbsent ==
    (WaitDone /\ ~ret["wait_for_pass_transition"]) => to_pass \notin DOMAIN pass_starts

\* C22: test_no_hang_between_passes never returns False when pass 10 is
\* recorded in pass_completes.
C22_NoHangAfterGeneration ==
    (HangDone /\ FinalPass \in DOMAIN pass_completes) =>
        ret["test_no_hang_between_passes"]

-----------------------------------------------------------------------------
(* The watermark last_pass_seen and the mapping pass_starts *)

\* the largest key of a start mapping, 0 when it is empty
LargestKey(d) ==
    IF DOMAIN d = {} THEN 0
    ELSE CHOOSE k \in DOMAIN d : \A j \in DOMAIN d : j <= k

\* what a poller can observe of the watermark and the start mapping
WatermarkIsLargestStart ==
    /\ last_pass_seen = LargestKey(pass_starts)
    /\ \A k \in DOMAIN pass_starts : k >= 1

\* a step that changes the watermark or the start mapping inserts one new key,
\* larger than every key already present, and moves the watermark to it
InsertsInIncreasingOrder ==
    (last_pass_seen' # last_pass_seen \/ pass_starts' # pass_starts) =>
        \E k \in (DOMAIN pass_starts') \ (DOMAIN pass_starts) :
            /\ DOMAIN pass_starts' = (DOMAIN pass_starts) \cup {k}
            /\ \A j \in DOMAIN pass_starts : j < k /\ pass_starts'[j] = pass_starts[j]
            /\ last_pass_seen' = k

\* C23: in every state a poller can observe, last_pass_seen is the largest key
\* of pass_starts (0 when it is empty), every key is at least 1, keys are
\* inserted in strictly increasing order, and the watermark and the mapping
\* change in the same step.
C23_WatermarkTracksStarts ==
    []WatermarkIsLargestStart /\ [][InsertsInIncreasingOrder]_vars

\* two passes have been started, a line "Pass 0:" and a line of an earlier pass
\* have been delivered as well
C23_Witness ==
    /\ DOMAIN pass_starts = {8, 9}
    /\ last_pass_seen = 9
    /\ Len(console_logs) >= 3
    /\ \E i \in 1..Len(console_logs) : console_logs[i] \in {StartLine(0), StartLine(8)}
    /\ console_logs[Len(console_logs)] \in {StartLine(0), StartLine(8), LineAfterPass8}

\* C24: with completion lines of the exact shape
\* "[runPasses] After Pass X: current_pass=Y", every key X of pass_completes
\* satisfies X <= last_pass_seen in every reachable monitor state.
C24_CompletedAtMostWatermark ==
    \A X \in DOMAIN pass_completes : X <= last_pass_seen

\* the completion line of pass 8 is the only line delivered so far that the
\* start pattern matches: the watermark 8 comes from the completion line
C24_Witness ==
    /\ 8 \in DOMAIN pass_completes
    /\ last_pass_seen = 8
    /\ \A i \in 1..Len(console_logs) :
           StartSearch(console_logs[i]).found => console_logs[i] = LineAfterPass8

-----------------------------------------------------------------------------
(* SpecGen: test_generation_completes called on a monitor that has already  *)
(* been listening while the earlier tests ran                               *)

\* what str(error) of a pageerror can be
GenErrorTexts == {ErrTimeout, ErrCrit, ErrWarn}

InitGen ==
    /\ MonitorInit
    /\ now = 0
    /\ last_line_at = -1
    /\ PollerAt("gen_before")
    /\ NoWaitArgs
    /\ ResultsInit
    /\ RunIdle
    /\ HelperIdle
    /\ UiIdle
    /\ ScriptIdle

\* the last pass completes while the earlier tests run
gen_before_console ==
    /\ pc = "gen_before"
    /\ ConsoleDuringSleep({LineAfterPass10}, 1)

\* a pageerror is recorded while the earlier tests run
gen_before_error ==
    /\ pc = "gen_before"
    /\ ErrorDuringSleep(GenErrorTexts, MaxErrors)

\* results['completes'] = await test_generation_completes(page, monitor)
gen_caller ==
    /\ pc = "gen_before"
    /\ pc' = "gen_call"
    /\ UNCHANGED <<wake, start_time, ret, printed, genFrame>>
    /\ UNCHANGED <<monitorVars, now, last_line_at, resultVars, scriptVars, runVars, helperVars, uiVars>>

gen_console == GenConsoleActive /\ ConsoleDuringSleep(GenLines, MaxLogs)

gen_error == GenConsoleActive /\ ErrorDuringSleep(GenErrorTexts, MaxErrors)

NextGen ==
    \/ gen_before_console
    \/ gen_before_error
    \/ gen_caller
    \/ test_generation_completes
    \/ gen_console
    \/ gen_error
    \/ SleepTick

SpecGen == InitGen /\ [][NextGen]_vars

\* errors holds an entry with 'Error' or 'CRITICAL' in it
CriticalEntry ==
    \E i \in 1..Len(errors) :
        Contains(errors[i], LitError) \/ Contains(errors[i], LitCritical)

\* the loop condition of test_generation_completes is evaluated and holds
AtGenPoll == pc = "gen_loop" /\ now - start_time < GenTimeout

\* the step returns v from test_generation_completes without a sleep
GenReturnsNow(v) ==
    /\ pc' = "gen_done"
    /\ "test_generation_completes" \in DOMAIN ret'
    /\ ret'["test_generation_completes"] = v
    /\ now' = now

\* C25: at a poll of test_generation_completes where pass 10 is in
\* pass_completes the function returns True, whatever errors holds;
\* otherwise an entry with 'Error' or 'CRITICAL', also one recorded before the
\* call, makes it return False at that poll.
C25_CompletionBeforeErrors ==
    [][ AtGenPoll =>
          IF FinalPass \in DOMAIN pass_completes THEN GenReturnsNow(TRUE)
          ELSE CriticalEntry => GenReturnsNow(FALSE) ]_vars

\* True was returned although a critical entry is in errors
C25_Witness ==
    /\ GenDone
    /\ ret["test_generation_completes"]
    /\ CriticalEntry

\* False was returned at the first poll for an error recorded before the call
C25_ErrorBeforeCall ==
    /\ GenDone
    /\ ~ret["test_generation_completes"]
    /\ now = start_time
    /\ CriticalEntry

-----------------------------------------------------------------------------
(* get_ui_pass_number and test_ui_sync_with_state *)

\* while time.time() - start_time < 30
UiSyncWindow == 30
\* await asyncio.sleep(5)
UiPoll == 5
\* console lines delivered during one run of test_ui_sync_with_state
MaxUiLogs == 1

LitOf10 == <<" ", "o", "f", " ", "1", "0">>

\* "Pass N of 10", the text of the progress component
UiText(n) == LitPass \o Dec(n) \o LitOf10

\* r'Pass (\d+) of 10' anchored at i
UiMatchAt(s, i) ==
    LET d1 == i + Len(LitPass)
        e1 == DigitRunEnd(s, d1)
    IN  /\ IsLiteralAt(s, i, LitPass)
        /\ e1 > d1
        /\ IsLiteralAt(s, e1, LitOf10)

UiSearch(s) ==
    IF \E i \in 1..Len(s) : UiMatchAt(s, i)
    THEN LET i  == CHOOSE k \in 1..Len(s) :
                      UiMatchAt(s, k) /\ \A j \in 1..(k - 1) : ~UiMatchAt(s, j)
             d1 == i + Len(LitPass)
         IN  [found |-> TRUE, pass_num |-> ParseInt(s, d1, DigitRunEnd(s, d1))]
    ELSE NoMatch

\* text_content() raises (no such element within the locator's timeout)
ReadRaises == [exit |-> "raise", text |-> <<>>]

\* text_content() returns text; the empty text stands for None and ''
ReadText(text) == [exit |-> "return", text |-> text]

\* what text_content() of the progress component can do: the UI shows pass
\* 0, 8 or 10, a text the pattern does not match, no text, or no element
UiReads ==
    {ReadRaises, ReadText(<<>>), ReadText(LineNoColon)}
        \cup {ReadText(UiText(n)) : n \in {0, 8, 10}}

\* get_ui_pass_number(page) when text_content() does what read says
get_ui_pass_number(read) ==
    IF read.exit = "raise" THEN None
    ELSE IF read.text # <<>> /\ UiSearch(read.text).found
         THEN UiSearch(read.text).pass_num
         ELSE None

\* a faulty variant of Truthy: only None counts as missing
TruthyNotNone(v) == v # None

\* bool(v) for v an int or None
Truthy(v) == v # None /\ v # 0

Abs(x) == IF x < 0 THEN -x ELSE x

MsgUiMismatch == "MISMATCH"
MsgUiOk == "OK"
MsgUiFail == "FAIL: UI sync mismatches detected"
MsgUiPass == "PASS: All UI sync checks passed"

\* the locals test_ui_sync_with_state leaves alone
uiFrame == <<from_pass, to_pass, timeout_seconds, last_activity_time, last_log_count,
             wait_start>>

\* mismatches = 0; checks = 0; start_time = time.time()
UiCall ==
    /\ pc = "ui_call"
    /\ mismatches' = 0
    /\ checks' = 0
    /\ start_time' = now
    /\ pc' = "ui_loop"
    /\ UNCHANGED <<wake, ret, printed, ui_pass, console_pass, polls, uiFrame>>

\* one evaluation of the loop condition and of the loop body up to its sleep,
\* or the statements after the loop
UiLoop(reads) ==
    /\ pc = "ui_loop"
    /\ IF WithinTimeout(now, start_time, UiSyncWindow)
       THEN \E read \in reads :
              LET ui == get_ui_pass_number(read)
                  console == last_pass_seen
                  both == Truthy(ui) /\ Truthy(console)
              IN  /\ ui_pass' = ui
                  /\ console_pass' = console
                  /\ checks' = checks + 1
                  /\ mismatches' = IF both /\ Abs(ui - console) > 1
                                   THEN mismatches + 1 ELSE mismatches
                  /\ printed' = IF ~both THEN printed
                                ELSE IF Abs(ui - console) > 1
                                     THEN printed \cup {MsgUiMismatch}
                                     ELSE printed \cup {MsgUiOk}
                  /\ polls' = polls \cup {<<ui, console>>}
                  /\ Sleep(UiPoll, "ui_sleep")
                  /\ UNCHANGED ret
       ELSE /\ IF mismatches > 0
               THEN /\ printed' = printed \cup {MsgUiFail}
                    /\ Returns("test_ui_sync_with_state", FALSE)
               ELSE /\ printed' = printed \cup {MsgUiPass}
                    /\ Returns("test_ui_sync_with_state", TRUE)
            /\ pc' = "ui_done"
            /\ UNCHANGED <<wake, mismatches, checks, ui_pass, console_pass, polls>>
    /\ UNCHANGED <<start_time, uiFrame>>

\* after "await asyncio.sleep(5)"
UiAfterSleep ==
    /\ pc = "ui_sleep"
    /\ now = wake
    /\ pc' = "ui_loop"
    /\ UNCHANGED <<wake, start_time, ret, printed, uiVars, uiFrame>>

test_ui_sync_with_state(reads) ==
    /\ (UiCall \/ UiLoop(reads) \/ UiAfterSleep)
    /\ UNCHANGED <<monitorVars, now, last_line_at, resultVars, scriptVars, runVars, helperVars>>

UiDone == pc = "ui_done" /\ Returned("test_ui_sync_with_state")

InitUi ==
    /\ MonitorInit
    /\ now = 0
    /\ last_line_at = -1
    /\ PollerAt("ui_call")
    /\ NoWaitArgs
    /\ ResultsInit
    /\ RunIdle
    /\ HelperIdle
    /\ UiIdle
    /\ ScriptIdle

UiLines == {StartLine(8), LinePass9}

\* the instants at which the page logs in SpecUi: within LineWindow seconds
\* after the test began and within LineWindow seconds before its last poll
UiConsoleActive ==
    /\ pc = "ui_sleep"
    /\ \/ now - start_time <= LineWindow
       \/ /\ now - start_time >= UiSyncWindow - UiPoll - LineWindow
          /\ now - start_time <= UiSyncWindow - UiPoll

ui_console == UiConsoleActive /\ ConsoleDuringSleep(UiLines, MaxUiLogs)

ui_poller == test_ui_sync_with_state(UiReads)

NextUi ==
    \/ ui_poller
    \/ SleepTick
    \/ ui_console

SpecUi == InitUi /\ [][NextUi]_vars

\* at the poll that read <<ui, console>> both values were available (the UI
\* value read and non-zero, last_pass_seen non-zero) and differed by more than 1
PollApart(poll) ==
    /\ poll[1] # None
    /\ poll[1] # 0
    /\ poll[2] # 0
    /\ (poll[1] - poll[2] > 1 \/ poll[2] - poll[1] > 1)

\* at the poll that read <<ui, console>> one of the values was unavailable
PollUnavailable(poll) == poll[1] = None \/ poll[1] = 0 \/ poll[2] = 0

\* the step is a poll of test_ui_sync_with_state
UiPollStep == pc = "ui_loop" /\ pc' = "ui_sleep"

\* C27: test_ui_sync_with_state returns False if and only if at some poll both
\* the UI pass number and last_pass_seen were available and differed by more
\* than 1; a poll where either value is unavailable is counted as a check
\* and never as a mismatch.
C27_FalseIffSomePollApart ==
    /\ [](UiDone => (~ret["test_ui_sync_with_state"] <=> \E poll \in polls : PollApart(poll)))
    /\ [][UiPollStep =>
            /\ checks' = checks + 1
            /\ PollUnavailable(<<ui_pass', console_pass'>>) => mismatches' = mismatches]_vars

\* False was returned; one poll read a UI pass more than 1 away from the
\* watermark, another read UI pass 0, another found no watermark yet
C27_Witness ==
    /\ UiDone
    /\ ~ret["test_ui_sync_with_state"]
    /\ checks = 6
    /\ mismatches = 1
    /\ \E poll \in polls : poll[1] = 0 /\ poll[2] # 0
    /\ \E poll \in polls : poll[1] = 10 /\ poll[2] = 0
    /\ \E poll \in polls : poll[1] = None

-----------------------------------------------------------------------------
(* run_comprehensive_test: the set-up, the four tests one after another,    *)
(* the except clause and browser.close()                                    *)

\* console lines delivered during one run of run_comprehensive_test
MaxRunLogs == 1

RunLines == {StartLine(8), LineAfterPass10}

\* what text_content() does in the runs of run_comprehensive_test
RunReads == {ReadRaises, ReadText(UiText(10))}

\* the poller locals the set-up and the sequencing leave alone
rcFrame == <<start_time, from_pass, to_pass, timeout_seconds, last_activity_time,
             last_log_count, wait_start, ret, printed>>

\* the variables of run_all_tests other than the two this function shares
rcRunFrame == <<run_pc, run_step, called, reports, escaped, report>>

\* an exception inside the try block: the except clause prints it, the
\* finally clause is next
RcCaught ==
    /\ caught' = TRUE
    /\ pc' = "rc_finally"
    /\ UNCHANGED wake

\* await page.goto(...); await asyncio.sleep(2)
RcGoto ==
    /\ pc = "rc_goto"
    /\ \E exit \in {"return", "raise"} :
          IF exit = "raise" THEN RcCaught
          ELSE Sleep(2, "rc_settle") /\ UNCHANGED caught

\* generate_btn.count(), generate_btn.click() and await asyncio.sleep(5)
RcButton ==
    /\ pc = "rc_settle"
    /\ now = wake
    /\ \E found \in {"button", "none", "raise"} :
          CASE found = "raise" -> RcCaught
            [] found = "none" -> pc' = "rc_progress" /\ UNCHANGED <<wake, caught>>
            [] found = "button" ->
                 \E exit \in {"return", "raise"} :
                    IF exit = "raise" THEN RcCaught
                    ELSE Sleep(5, "rc_started") /\ UNCHANGED caught

\* progress_indicator.count(), then the call of the first test
RcProgress ==
    /\ \/ pc = "rc_progress"
       \/ pc = "rc_started" /\ now = wake
    /\ \E exit \in {"return", "raise"} :
          IF exit = "raise" THEN RcCaught
          ELSE pc' = "t89_call" /\ UNCHANGED <<wake, caught>>

\* results[...] = await test(...): a test has returned, the next one is called
RcNextTest ==
    /\ pc \in {"t89_done", "ui_done", "hang_done"}
    /\ pc' = CASE pc = "t89_done" -> "ui_call"
                [] pc = "ui_done" -> "hang_call"
                [] pc = "hang_done" -> "gen_call"
    /\ UNCHANGED <<wake, caught>>

\* the summary after the fourth test; the finally clause is next
RcSummary ==
    /\ pc = "gen_done"
    /\ pc' = "rc_finally"
    /\ UNCHANGED <<wake, caught>>

\* finally: await browser.close()
RcFinally ==
    /\ pc = "rc_finally"
    /\ pc' = "rc_end"
    /\ browser_closed' = TRUE
    /\ UNCHANGED <<wake, caught, rcFrame, uiVars>>

\* the locals of test_ui_sync_with_state end with its return
RcLocals ==
    IF pc = "ui_done"
    THEN /\ mismatches' = 0
         /\ checks' = 0
         /\ ui_pass' = None
         /\ console_pass' = 0
         /\ polls' = {}
    ELSE UNCHANGED uiVars

rc_sequence ==
    /\ \/ (RcGoto \/ RcButton \/ RcProgress \/ RcNextTest \/ RcSummary)
          /\ RcLocals
          /\ UNCHANGED <<browser_closed, rcFrame>>
       \/ RcFinally
    /\ UNCHANGED <<monitorVars, now, last_line_at, resultVars, scriptVars, rcRunFrame,
                   helperVars>>

\* every step of the coroutine run_comprehensive_test and of the coroutines
\* it awaits
run_comprehensive_test ==
    \/ rc_sequence
    \/ test_pass_transition_8_to_9
    \/ wait_for_pass_transition
    \/ test_ui_sync_with_state(RunReads)
    \/ test_no_hang_between_passes
    \/ test_generation_completes

\* the instants at which the page logs in SpecComprehensive: within
\* LineWindow seconds after a test, or a wait of it, began
RunConsoleActive ==
    \/ pc \in {"t89_sleep", "ui_sleep", "hang_sleep", "gen_sleep"}
          /\ now - start_time <= LineWindow
    \/ pc \in {"wt_sleep1", "wt_sleep2"} /\ now - wait_start <= LineWindow

rc_console == RunConsoleActive /\ ConsoleDuringSleep(RunLines, MaxRunLogs)

InitComprehensive ==
    /\ MonitorInit
    /\ now = 0
    /\ last_line_at = -1
    /\ PollerAt("rc_goto")
    /\ NoWaitArgs
    /\ ResultsInit
    /\ RunIdle
    /\ HelperIdle
    /\ UiIdle
    /\ ScriptIdle

NextComprehensive ==
    \/ run_comprehensive_test
    \/ SleepTick
    \/ rc_console

\* the event loop resumes a coroutine that can continue, and the clock
\* advances while a coroutine sleeps
SpecComprehensive ==
    /\ InitComprehensive
    /\ [][NextComprehensive]_vars
    /\ WF_vars(run_comprehensive_test)
    /\ WF_vars(SleepTick)

FourTests == {"test_pass_transition_8_to_9", "test_ui_sync_with_state",
              "test_no_hang_between_passes", "test_generation_completes"}

\* the tests return in the order in which run_comprehensive_test calls them
ReturnedInOrder ==
    /\ Returned("test_ui_sync_with_state") => Returned("test_pass_transition_8_to_9")
    /\ Returned("test_no_hang_between_passes") => Returned("test_ui_sync_with_state")
    /\ Returned("test_generation_completes") => Returned("test_no_hang_between_passes")

RcEnded == pc = "rc_end" /\ browser_closed

\* C26 as stated: run_comprehensive_test always terminates with the four
\* tests having returned a boolean each, in order, and browser.close()
\* executed.
C26_AsStated ==
    RcEnded => \A f \in FourTests : Returned(f)

\* C26 amended: once the try block is entered run_comprehensive_test always
\* terminates and browser.close() is executed; the tests return in the order
\* of their calls; all four return a boolean unless a page call of the
\* set-up raised, and then none of them is run.
C26_TerminatesAndCloses ==
    /\ <>RcEnded
    /\ [](ReturnedInOrder /\ \A f \in FourTests : Returned(f) => ret[f] \in BOOLEAN)
    /\ [](RcEnded => IF caught THEN \A f \in FourTests : ~Returned(f)
                                ELSE \A f \in FourTests : Returned(f))

\* the run ended with no console line ever delivered; the four tests returned
C26_Witness ==
    /\ RcEnded
    /\ console_logs = <<>>
    /\ errors = <<>>
    /\ \A f \in FourTests : Returned(f)
    /\ ~ret["test_pass_transition_8_to_9"]
    /\ ~ret["test_no_hang_between_passes"]

\* C28: each invocation of test_open_brief_modal and of test_settings_access
\* records exactly one outcome under its name, also when a nested helper or
\* a page interaction raises an exception that the function absorbs.
C28_ExactlyOneOutcome ==
    (helper \in OutcomeRecorders /\ helper_pc = "done" /\ ~propagated) =>
        Len(produced) = 1

-----------------------------------------------------------------------------
(* SpecReport: outcomes with any status string are recorded, then           *)
(* generate_final_report runs                                               *)

\* status strings add_result can be given: the three of the call sites
\* and two others
AnyStatuses == {"PASS", "FAIL", "SKIP", "ERROR", "pass"}

\* results.add_result(...) with any status string, before the report
add_any_result ==
    /\ reports = 0
    /\ Len(tests) < MaxTests
    /\ \E t \in CallSiteTests, status \in AnyStatuses :
          AddResult(t.category, t.name, status, "", "None")
    /\ UNCHANGED <<monitorVars, now, pollerVars, last_line_at, scriptVars, runVars, helperVars, uiVars>>

\* generate_final_report() at the end of the run
generate_final_report ==
    /\ reports = 0
    /\ GenerateFinalReport
    /\ UNCHANGED <<run_pc, run_step, called, browser_closed, caught, escaped>>
    /\ UNCHANGED <<monitorVars, now, pollerVars, last_line_at, resultVars, scriptVars,
                   helperVars, uiVars>>

NextReport == add_any_result \/ generate_final_report

SpecReport == Init /\ [][NextReport]_vars

\* the sum over all categories of the count named key
RECURSIVE SumCounts(_, _)
SumCounts(categories, key) ==
    IF DOMAIN categories = {} THEN 0
    ELSE LET c == CHOOSE k \in DOMAIN categories : TRUE
         IN  categories[c][key]
               + SumCounts([k \in (DOMAIN categories) \ {c} |-> categories[k]], key)

\* C29: for any sequence of recorded outcomes, with any status strings, the
\* per-category tallies of generate_final_report agree with summary(): the
\* pass, fail and skip counts summed over the categories are passed, failed
\* and skipped, and passed + failed + skipped is total.
C29_TalliesAgreeWithSummary ==
    reports > 0 =>
        /\ SumCounts(report.categories, "pass") = report.summary.passed
        /\ SumCounts(report.categories, "fail") = report.summary.failed
        /\ SumCounts(report.categories, "skip") = report.summary.skipped
        /\ report.summary.passed + report.summary.failed + report.summary.skipped
             = report.summary.total
        /\ report.summary = summary

\* the report covers two categories and a status that is none of PASS, FAIL, SKIP
C29_Witness ==
    /\ reports = 1
    /\ Cardinality(DOMAIN report.categories) = 2
    /\ \E i \in 1..Len(tests) : tests[i].status = "ERROR"
    /\ \E i \in 1..Len(tests) : tests[i].status = "pass"
    /\ report.summary.passed >= 1
    /\ report.summary.failed >= 1

=============================================================================
